---- MODULE Spec2Model ----
(***************************************************************************)
(* audio_sorter: the scan coordinator (src/scan_manager.rs) with the two   *)
(* persistent stores it loads and saves (src/storage.rs,                   *)
(* src/analysis_store.rs), the walker (src/scanner.rs) and the per-file    *)
(* worker's result (src/worker.rs).                                        *)
(*                                                                         *)
(* Threads: HTTP handler threads calling ScanManager::start_scan, the      *)
(* tokio task each accepted start spawns (it runs run_scan_logic on a      *)
(* blocking thread, then the cleanup), and that task's resource monitor    *)
(* thread.  Every step below is one lock block, one file-system call or    *)
(* one stretch of thread-local code.                                       *)
(*                                                                         *)
(* Further parts, each with a specification of its own: the process phase  *)
(* with the chunk's workers as pool threads, files written to during the   *)
(* diff phase, the online lookups against a clock (src/acoustid.rs,        *)
(* src/musicbrainz.rs), the genre classifier's framing                     *)
(* (src/genre_classifier.rs) and the sample conversion                     *)
(* (src/audio_decoder.rs).                                                 *)
(***************************************************************************)
EXTENDS Integers, Sequences, FiniteSets, TLC

\* ------------------------------------------------------------- constants
batch_size == 50
CheckpointEvery == 200

\* ---------------------------------------------------------------- bounds
MaxCallers == 2
MaxScans == 2
MaxFaults == 1
MaxVaried == 1
MaxSmallTail == 1
MaxRemainder == 1

Callers == 1..MaxCallers
Tasks == 1..MaxScans
Varied == 1..MaxVaried

\* std::fs::metadata of every file of the tree that can be read: (len, mtime).
FileStat == [size |-> 1, mtime |-> 1]
\* std::fs::metadata returned Err.
NoMeta == [size |-> 0, mtime |-> 0]

\* -------------------------------------------------------------- helpers
Min(a, b) == IF a < b THEN a ELSE b

Range(s) == {s[i] : i \in DOMAIN s}

EmptyMap == [p \in {} |-> 0]

\* HashMap::insert: last write wins.
Put(m, k, v) == [p \in DOMAIN m \cup {k} |-> IF p = k THEN v ELSE m[p]]

\* ----------------------------------------------------------------- state
VARIABLES
    progress,     \* ScanManager.progress: the shared ScanProgress
    callerPc,     \* each handler thread's position in start_scan
    callers,      \* the handler threads that exist
    started,      \* number of accepted start_scan calls (= tokio tasks spawned)
    task,         \* each tokio task: position and run_scan_logic's locals
    monPc,        \* each task's resource monitor thread
    diskIndex,    \* index.json
    diskAnalysis, \* analysis.bin
    tree,         \* the input directory: walker result, stat and worker result per file
    crashes,      \* process crashes so far
    ioFailures,   \* failed store writes so far
    panics,       \* worker panics so far
    pool,         \* the rayon pool of a scan's process phase and its work
    call,         \* a library function being called, with its arguments
    ret,          \* what that call returned
    classifier    \* genre_classifier: MODEL_DIR and each thread's MODELS

\* The scan coordinator with its stores and threads.
scanVars == <<progress, callerPc, callers, started, task, monPc, diskIndex,
              diskAnalysis, tree, crashes, ioFailures, panics>>

\* The parts of the program the coordinator's steps do not touch.
libVars == <<pool, call, ret, classifier>>

vars == <<progress, callerPc, callers, started, task, monPc, diskIndex,
          diskAnalysis, tree, crashes, ioFailures, panics, pool, call, ret,
          classifier>>

\* ScanProgress::default().  elapsed_secs and resources hold the task whose
\* start_time / sampler wrote them last (0: never written).
DefaultProgress ==
    [is_scanning |-> FALSE, files_total |-> 0, files_processed |-> 0,
     current_file |-> 0, elapsed_secs |-> 0, resources |-> 0, errors |-> 0]

\* A task that is not running run_scan_logic holds no locals.
NoLocals(pc, res) ==
    [pc |-> pc, library |-> EmptyMap, analysis_store |-> EmptyMap,
     files_to_process |-> <<>>, next_chunk |-> 0, chunk_results |-> <<>>,
     processed_c |-> 0, error_c |-> 0, writing |-> FALSE,
     save_failed |-> FALSE, scan_result |-> res]

\* SystemTime::now() of the scan that task t runs.
Now(t) == FileStat.mtime + t

\* A store file: absent, a complete serialization, or a truncated one.
AbsentFile == [state |-> "absent", data |-> EmptyMap]
FileOf(m) == [state |-> "ok", data |-> m]
TornFile == [state |-> "torn", data |-> EmptyMap]

\* AudioLibrary::load / AnalysisStore::load: Ok(default) when the file does not
\* exist, Err when it cannot be parsed.
Load(file) ==
    IF file.state = "absent" THEN [ok |-> TRUE, store |-> EmptyMap]
    ELSE IF file.state = "ok" THEN [ok |-> TRUE, store |-> file.data]
    ELSE [ok |-> FALSE, store |-> EmptyMap]

\* load(..).unwrap_or_default()
LoadOrDefault(file) == Load(file).store

\* ------------------------------------------------------------------ Init
\* What a path other than the freshly added files may be when the program
\* starts: cand: the walker returns it; readable: fs::metadata succeeds; idx:
\* the entry index.json holds for it (none, one that matches the file's stat,
\* or one whose size or mtime differs); vec: analysis.bin holds a vector;
\* out: what process_file returns for it (Ok with a vector, Ok without, Err).
VariedKinds ==
    {k \in [cand : BOOLEAN, readable : BOOLEAN,
            idx : {"none", "same", "size", "mtime"}, vec : BOOLEAN,
            out : {"vec", "novec", "err"}] :
        /\ (~k.cand \/ ~k.readable) =>
               k.out = "vec" /\ k.idx \in {"none", "same"} /\ (k.cand \/ k.readable)
        /\ (k.idx = "same" /\ k.vec) => k.out = "vec"}

\* The entry an earlier scan left in index.json for a file of kind k.
OldEntry(k) ==
    [file_size |-> IF k.idx = "size" THEN FileStat.size + 1 ELSE FileStat.size,
     modified_time |-> IF k.idx = "mtime" THEN FileStat.mtime + 1 ELSE FileStat.mtime,
     scanned_at |-> Now(0)]

\* A vector: the scan whose worker produced it (0: an earlier scan).
OldVector == [by |-> 0]

\* The kinds without a stale entry, an unreadable file or a missing vector: a
\* path that is not there, a new file that a worker enriches, a new file whose
\* worker fails, and a file known and unchanged.
PlainKinds ==
    {k \in VariedKinds :
        /\ k.readable
        /\ k.idx \in {"none", "same"}
        /\ k.vec = (k.idx = "same")
        /\ k.out # "novec"
        /\ k.cand \/ k.idx = "none"}

\* The paths of the tree: the varied ones, then tree.n fresh files.
Paths == 1..(MaxVaried + tree.n)

\* The walker's result: the kept paths in directory order.
WalkOf(kinds, n) ==
    SelectSeq([i \in 1..(MaxVaried + n) |-> i],
              LAMBDA p : p \notin Varied \/ kinds[p].cand)

\* std::fs::metadata(path): (len, mtime), or NoMeta for Err.  A file written
\* to since the program started has the mtime of that write.
Metadata(path) ==
    IF path \in Varied /\ ~tree.kinds[path].readable THEN NoMeta
    ELSE IF path \in DOMAIN tree.touched
         THEN [FileStat EXCEPT !.mtime = tree.touched[path]]
         ELSE FileStat

InitialFile(m) == IF DOMAIN m = {} THEN AbsentFile ELSE FileOf(m)

\* No process phase is under way, no library function is being called, and
\* genre_classifier::init_models has not run.
NoPool == [entry |-> "none"]
NoCall == [fn |-> "none"]
NoClassifier ==
    [MODEL_DIR |-> <<>>, MODELS |-> <<>>, init_called |-> FALSE,
     model_dir |-> [embedding |-> FALSE, classifier |-> FALSE]]

\* The paths whose file name is not valid UTF-8, in a tree of n fresh files:
\* none of them, the last file, or every file.
NonUtf8(naming, n) ==
    CASE naming = "utf8" -> {}
      [] naming = "last_not" -> {MaxVaried + n}
      [] naming = "none_utf8" -> 1..(MaxVaried + n)

\* The program after ScanManager::new(), with handler threads cs, over a tree
\* of varied paths of the kinds ks and n fresh files, with file names as one
\* of `names` says.
InitTree(cs, ks, sizes, names) ==
    \E kinds \in [Varied -> ks], n \in sizes, naming \in names :
        /\ progress = DefaultProgress
        /\ callers = cs
        /\ callerPc = [c \in Callers |-> "idle"]
        /\ started = 0
        /\ task = [t \in Tasks |-> NoLocals("none", "none")]
        /\ monPc = [t \in Tasks |-> "none"]
        /\ tree = [kinds |-> kinds, n |-> n, non_utf8 |-> NonUtf8(naming, n),
                   touched |-> EmptyMap]
        /\ diskIndex = InitialFile([p \in {v \in Varied : kinds[v].idx # "none"} |->
                                      OldEntry(kinds[p])])
        /\ diskAnalysis = InitialFile([p \in {v \in Varied : kinds[v].vec} |-> OldVector])
        /\ crashes = 0
        /\ ioFailures = 0
        /\ panics = 0

\* Every file name of the tree is valid UTF-8.
Utf8Names == {"utf8"}

\* The same over a tree whose file names are all valid UTF-8.
InitWith(cs, ks, sizes) == InitTree(cs, ks, sizes, Utf8Names)

SmallSizes == 0..MaxSmallTail

\* Tree sizes that reach a checkpoint: CheckpointEvery files, with or without
\* one more chunk, and up to MaxRemainder files on top.
LargeSizes ==
    {CheckpointEvery + e * batch_size + r : e \in 0..1, r \in 0..MaxRemainder}

\* Outside the coordinator nothing is under way.
LibIdle ==
    /\ pool = NoPool
    /\ call = NoCall
    /\ ret = NoCall
    /\ classifier = NoClassifier

\* A ScanManager that is never asked to scan, over an empty directory.
ScanIdle == InitWith({}, {k \in PlainKinds : ~k.cand}, {0})

Init == InitWith(Callers, PlainKinds, SmallSizes) /\ LibIdle

InitScan ==
    /\ \/ InitWith({1}, VariedKinds, SmallSizes)
       \/ InitWith({1}, PlainKinds, LargeSizes)
    /\ LibIdle

\* ----------------------------------------------------------- start_scan
SetTask(t, r) == [task EXCEPT ![t] = r]

\* A thread other than `me` that is running run_scan_logic.
Running(t) == task[t].pc \notin {"none", "spawned", "ret", "join", "done", "killed"}

\* Line 73: the read lock is taken, is_scanning read, the lock released.
IsBusy(p) == p.is_scanning

\* Lines 78-82: the reset, under the write lock.
ResetProgress == [DefaultProgress EXCEPT !.is_scanning = TRUE]

\* start_scan, lines 72-75 with the flag set: Err("Scan already in progress").
StartScanBusy(c) ==
    /\ c \in callers
    /\ callerPc[c] = "idle"
    /\ IsBusy(progress)
    /\ UNCHANGED vars

\* start_scan, lines 72-75 with the flag clear: the check is passed and the
\* read lock is released before the write lock of line 79 is asked for.
StartScanCheck(c) ==
    /\ c \in callers
    /\ callerPc[c] = "idle"
    /\ ~IsBusy(progress)
    /\ started + Cardinality({d \in callers : callerPc[d] = "checked"}) < MaxScans
    /\ callerPc' = [callerPc EXCEPT ![c] = "checked"]
    /\ UNCHANGED <<progress, callers, started, task, monPc, diskIndex, diskAnalysis,
                   tree, crashes, ioFailures, panics>>
    /\ UNCHANGED libVars

\* start_scan, lines 77-168: reset ScanProgress, spawn the tokio task, Ok(()).
StartScanSpawn(c) ==
    /\ c \in callers
    /\ callerPc[c] = "checked"
    /\ progress' = ResetProgress
    /\ started' = started + 1
    /\ task' = SetTask(started + 1, NoLocals("spawned", "none"))
    /\ callerPc' = [callerPc EXCEPT ![c] = "idle"]
    /\ UNCHANGED <<callers, monPc, diskIndex, diskAnalysis, tree, crashes, ioFailures, panics>>
    /\ UNCHANGED libVars

\* ------------------------------------------------- the spawned tokio task
\* Lines 86-142: start_time is taken and the monitor thread spawned; then
\* spawn_blocking hands run_scan_logic to a blocking thread.
TaskBegin(t) ==
    /\ task[t].pc = "spawned"
    /\ monPc' = [monPc EXCEPT ![t] = "sleep"]
    /\ task' = SetTask(t, [task[t] EXCEPT !.pc = "load_index"])
    /\ UNCHANGED <<progress, callerPc, callers, started, diskIndex, diskAnalysis,
                   tree, crashes, ioFailures, panics>>
    /\ UNCHANGED libVars

\* LoadIndex with the load error propagated (load(..)?) instead of defaulted.
LoadIndex_abortsOnError(t) ==
    /\ task[t].pc = "load_index"
    /\ task' = SetTask(t, IF Load(diskIndex).ok
                          THEN [task[t] EXCEPT !.pc = "load_analysis",
                                               !.library = Load(diskIndex).store]
                          ELSE NoLocals("ret", "Err"))
    /\ UNCHANGED <<progress, callerPc, callers, started, monPc, diskIndex,
                   diskAnalysis, tree, crashes, ioFailures, panics>>
    /\ UNCHANGED libVars

\* ------------------------------------------------------- run_scan_logic
\* Line 182.
LoadIndex(t) ==
    /\ task[t].pc = "load_index"
    /\ task' = SetTask(t, [task[t] EXCEPT !.pc = "load_analysis",
                                          !.library = LoadOrDefault(diskIndex)])
    /\ UNCHANGED <<progress, callerPc, callers, started, monPc, diskIndex,
                   diskAnalysis, tree, crashes, ioFailures, panics>>
    /\ UNCHANGED libVars

\* Lines 183-184.
LoadAnalysis(t) ==
    /\ task[t].pc = "load_analysis"
    /\ task' = SetTask(t, [task[t] EXCEPT !.pc = "walk",
                                          !.analysis_store = LoadOrDefault(diskAnalysis)])
    /\ UNCHANGED <<progress, callerPc, callers, started, monPc, diskIndex,
                   diskAnalysis, tree, crashes, ioFailures, panics>>
    /\ UNCHANGED libVars

\* scanner::scan_directory: every walk error is dropped by filter_map(e.ok()), so
\* the result is always Ok(files).
scan_directory == WalkOf(tree.kinds, tree.n)

\* Lines 187-197: files = scan_directory(..)?; p.files_total = files.len();
\* current_time = SystemTime::now(), which is Now(t).
Enumerate(t) ==
    /\ task[t].pc = "walk"
    /\ progress' = [progress EXCEPT !.files_total = Len(scan_directory)]
    /\ task' = SetTask(t, [task[t] EXCEPT !.pc = "diff"])
    /\ UNCHANGED <<callerPc, callers, started, monPc, diskIndex, diskAnalysis,
                   tree, crashes, ioFailures, panics>>
    /\ UNCHANGED libVars

\* needs_update without its last clause: an entry whose (size, mtime) matches is
\* never reprocessed, whether or not the feature store holds its vector.
needs_update_ignoresMissingVector(lib, store, path, size, mtime) ==
    IF path \in DOMAIN lib
    THEN lib[path].modified_time # mtime \/ lib[path].file_size # size
    ELSE TRUE

\* Lines 213-222.
needs_update(lib, store, path, size, mtime) ==
    IF path \in DOMAIN lib
    THEN IF lib[path].modified_time # mtime \/ lib[path].file_size # size
         THEN TRUE
         ELSE path \notin DOMAIN store
    ELSE TRUE

\* Line 204: fs::metadata(path) is Ok.
MetadataOk(path) == Metadata(path) # NoMeta

\* Lines 203-230, the work list: the candidates whose metadata is read and that
\* need an update, in walk order, each with its (size, mtime).
WorkList(lib, store, files) ==
    LET keep(path) == /\ MetadataOk(path)
                      /\ needs_update(lib, store, path, Metadata(path).size,
                                      Metadata(path).mtime)
        kept == SelectSeq(files, keep)
    IN  [i \in 1..Len(kept) |->
            [path |-> kept[i], size |-> Metadata(kept[i]).size,
             mtime |-> Metadata(kept[i]).mtime]]

\* Lines 226-228: skipped_count counts the candidates whose metadata is read and
\* that need no update.
SkippedCount(lib, store, files) ==
    Cardinality({i \in DOMAIN files :
        /\ MetadataOk(files[i])
        /\ ~needs_update(lib, store, files[i], Metadata(files[i]).size,
                         Metadata(files[i]).mtime)})

\* Lines 199-246: the diff phase, files_processed = skipped_count, and the early
\* return when nothing needs processing.
DiffPhase(t) ==
    /\ task[t].pc = "diff"
    /\ LET todo == WorkList(task[t].library, task[t].analysis_store, scan_directory)
           skipped == SkippedCount(task[t].library, task[t].analysis_store,
                                   scan_directory)
       IN  /\ progress' = [progress EXCEPT !.files_processed = skipped]
           /\ task' = SetTask(t,
                 IF todo = <<>>
                 THEN NoLocals("ret", "Ok")
                 ELSE [task[t] EXCEPT !.pc = "chunk", !.files_to_process = todo,
                                      !.next_chunk = 1, !.processed_c = skipped,
                                      !.error_c = 0])
    /\ UNCHANGED <<callerPc, callers, started, monPc, diskIndex, diskAnalysis,
                   tree, crashes, ioFailures, panics>>
    /\ UNCHANGED libVars

\* Crashes, failed writes and panics are drawn from one budget.
FaultBudget == crashes + ioFailures + panics < MaxFaults

\* Line 265: files_to_process.chunks(batch_size), the chunk that starts at i.
ChunkAt(todo, i) == SubSeq(todo, i, Min(i + batch_size - 1, Len(todo)))

\* worker::process_file for one work item: Ok((meta, Some(vector))),
\* Ok((meta, None)) or Err.
process_file(path) == IF path \in Varied THEN tree.kinds[path].out ELSE "vec"

\* Lines 267-288: the chunk's workers run on the pool and their results are
\* collected in the chunk's order.
RunWorkers(t) ==
    /\ task[t].pc = "chunk"
    /\ LET chunk == ChunkAt(task[t].files_to_process, task[t].next_chunk)
       IN  task' = SetTask(t, [task[t] EXCEPT
                !.pc = "merge",
                !.chunk_results = [i \in 1..Len(chunk) |->
                    [path |-> chunk[i].path, size |-> chunk[i].size,
                     mtime |-> chunk[i].mtime,
                     result |-> process_file(chunk[i].path)]]])
    /\ UNCHANGED <<progress, callerPc, callers, started, monPc, diskIndex,
                   diskAnalysis, tree, crashes, ioFailures, panics>>
    /\ UNCHANGED libVars

\* A worker panics: the panic unwinds run_scan_logic and spawn_blocking's
\* handle yields Err(JoinError) (line 149).
WorkerPanic(t) ==
    /\ task[t].pc = "chunk"
    /\ FaultBudget
    /\ panics' = panics + 1
    /\ task' = SetTask(t, NoLocals("ret", "Panic"))
    /\ UNCHANGED <<progress, callerPc, callers, started, monPc, diskIndex,
                   diskAnalysis, tree, crashes, ioFailures>>
    /\ UNCHANGED libVars

\* MergeOne with the processed counter bumped in the Err arm as well as before
\* the match.
MergeOne_countsErrorTwice(st, r, t) ==
    IF r.result = "err"
    THEN [st EXCEPT !.processed_c = @ + 2, !.error_c = @ + 1]
    ELSE [st EXCEPT
            !.processed_c = @ + 1,
            !.library = Put(@, r.path, [file_size |-> r.size,
                                        modified_time |-> r.mtime,
                                        scanned_at |-> Now(t)]),
            !.analysis_store = IF r.result = "vec"
                               THEN Put(@, r.path, [by |-> t]) ELSE @]

\* MergeOne with the entry inserted before the result is matched, so that a
\* failed file gets a record too.
MergeOne_recordsFailedFile(st, r, t) ==
    [st EXCEPT
        !.processed_c = @ + 1,
        !.error_c = IF r.result = "err" THEN @ + 1 ELSE @,
        !.library = Put(@, r.path, [file_size |-> r.size,
                                    modified_time |-> r.mtime,
                                    scanned_at |-> Now(t)]),
        !.analysis_store = IF r.result = "vec"
                           THEN Put(@, r.path, [by |-> t]) ELSE @]

\* Lines 292-313: one result folded into the in-memory stores and counters.
MergeOne(st, r, t) ==
    IF r.result = "err"
    THEN [st EXCEPT !.processed_c = @ + 1, !.error_c = @ + 1]
    ELSE [st EXCEPT
            !.processed_c = @ + 1,
            !.library = Put(@, r.path, [file_size |-> r.size,
                                        modified_time |-> r.mtime,
                                        scanned_at |-> Now(t)]),
            !.analysis_store = IF r.result = "vec"
                               THEN Put(@, r.path, [by |-> t]) ELSE @]

\* Line 291: for (path, size, mtime, result) in chunk_results.
RECURSIVE MergeResults(_, _, _)
MergeResults(st, rs, t) ==
    IF rs = <<>> THEN st
    ELSE MergeResults(MergeOne(st, Head(rs), t), Tail(rs), t)

\* Line 329.
CheckpointDue(processed_c) == processed_c % CheckpointEvery = 0

\* Where run_scan_logic goes once a chunk is merged and any checkpoint is done.
AfterChunk(next, todo) == IF next > Len(todo) THEN "final_index" ELSE "chunk"

\* Line 322: last.0.file_name().and_then(|s| s.to_str()), None for a name that
\* is not valid UTF-8.
file_name_str(path) == IF path \in tree.non_utf8 THEN <<>> ELSE <<path>>

\* Lines 317-326: progress published once per batch; current_file is written
\* only when the last file's name converts.
PublishBatch(p, st, last) ==
    [p EXCEPT !.files_processed = st.processed_c, !.errors = st.error_c,
              !.current_file = IF file_name_str(last) = <<>> THEN @
                               ELSE file_name_str(last)[1]]

\* Lines 290-332: the chunk's results are merged, progress is published, and a
\* checkpoint is started when due.
MergeChunk(t) ==
    /\ task[t].pc = "merge"
    /\ LET rs == task[t].chunk_results
           st == MergeResults(task[t], rs, t)
           next == task[t].next_chunk + Len(rs)
       IN  /\ progress' = PublishBatch(progress, st, rs[Len(rs)].path)
           /\ task' = SetTask(t, [st EXCEPT
                  !.chunk_results = <<>>,
                  !.next_chunk = next,
                  !.pc = IF CheckpointDue(st.processed_c) THEN "ckpt_index"
                         ELSE AfterChunk(next, st.files_to_process)])
    /\ UNCHANGED <<callerPc, callers, started, monPc, diskIndex, diskAnalysis,
                   tree, crashes, ioFailures, panics>>
    /\ UNCHANGED libVars

\* ------------------------------------------------------------ store saves
SavePcs == {"ckpt_index", "ckpt_analysis", "final_index", "final_analysis"}

SavesIndex(pc) == pc \in {"ckpt_index", "final_index"}

\* Lines 330-331 (let _ = ..save(..)) and 337-338 (..save(..)?): where the
\* scan goes after a save that returned ok (TRUE) or Err (FALSE).
AfterSave(pc, ok, next, todo) ==
    CASE pc = "ckpt_index" -> "ckpt_analysis"
      [] pc = "ckpt_analysis" -> AfterChunk(next, todo)
      [] pc = "final_index" -> IF ok THEN "final_analysis" ELSE "ret"
      [] pc = "final_analysis" -> "ret"

\* The task after a save: run_scan_logic has returned (its locals dropped) or
\* goes on.
Saved(t, ok) ==
    LET to == AfterSave(task[t].pc, ok, task[t].next_chunk, task[t].files_to_process)
    IN  IF to = "ret"
        THEN NoLocals("ret", IF ok THEN "Ok" ELSE "Err")
        ELSE [task[t] EXCEPT !.pc = to, !.writing = FALSE,
                             !.save_failed = @ \/ ~ok]

\* storage.rs:40 / analysis_store.rs:30: fs::write opens the file with
\* truncation; the old content is gone and the new one not yet written.
SaveOpen(t) ==
    /\ task[t].pc \in SavePcs
    /\ ~task[t].writing
    /\ IF SavesIndex(task[t].pc)
       THEN diskIndex' = TornFile /\ UNCHANGED diskAnalysis
       ELSE diskAnalysis' = TornFile /\ UNCHANGED diskIndex
    /\ task' = SetTask(t, [task[t] EXCEPT !.writing = TRUE])
    /\ UNCHANGED <<progress, callerPc, callers, started, monPc, tree, crashes,
                   ioFailures, panics>>
    /\ UNCHANGED libVars

\* fs::write writes the whole serialization; save returns Ok(()).
SaveWrite(t) ==
    /\ task[t].pc \in SavePcs
    /\ task[t].writing
    /\ IF SavesIndex(task[t].pc)
       THEN diskIndex' = FileOf(task[t].library) /\ UNCHANGED diskAnalysis
       ELSE diskAnalysis' = FileOf(task[t].analysis_store) /\ UNCHANGED diskIndex
    /\ task' = SetTask(t, Saved(t, TRUE))
    /\ UNCHANGED <<progress, callerPc, callers, started, monPc, tree, crashes,
                   ioFailures, panics>>
    /\ UNCHANGED libVars

\* save returns Err before the file is touched (serialization, create_dir_all
\* or the open fails).
SaveOpenFails(t) ==
    /\ task[t].pc \in SavePcs
    /\ ~task[t].writing
    /\ FaultBudget
    /\ ioFailures' = ioFailures + 1
    /\ task' = SetTask(t, Saved(t, FALSE))
    /\ UNCHANGED <<progress, callerPc, callers, started, monPc, diskIndex,
                   diskAnalysis, tree, crashes, panics>>
    /\ UNCHANGED libVars

\* The write fails after the truncation: save returns Err, the file stays
\* truncated.
SaveWriteFails(t) ==
    /\ task[t].pc \in SavePcs
    /\ task[t].writing
    /\ FaultBudget
    /\ ioFailures' = ioFailures + 1
    /\ task' = SetTask(t, Saved(t, FALSE))
    /\ UNCHANGED <<progress, callerPc, callers, started, monPc, diskIndex,
                   diskAnalysis, tree, crashes, panics>>
    /\ UNCHANGED libVars

\* ------------------------------------------------ cleanup and the monitor
\* Lines 152-156, under the write lock.
CleanupProgress(p, t) == [p EXCEPT !.is_scanning = FALSE, !.elapsed_secs = t]

\* Cleanup with the JoinError of a panicked scan propagated (.await?) before
\* the flag is cleared.
Cleanup_skippedOnPanic(t) ==
    /\ task[t].pc = "ret"
    /\ progress' = IF task[t].scan_result = "Panic" THEN progress
                   ELSE CleanupProgress(progress, t)
    /\ task' = SetTask(t, [task[t] EXCEPT !.pc = "join"])
    /\ UNCHANGED <<callerPc, callers, started, monPc, diskIndex, diskAnalysis,
                   tree, crashes, ioFailures, panics>>
    /\ UNCHANGED libVars

\* Lines 149-156: the blocking thread's handle resolves (Ok(Ok), Ok(Err) or
\* Err(JoinError)) and the cleanup runs.
Cleanup(t) ==
    /\ task[t].pc = "ret"
    /\ progress' = CleanupProgress(progress, t)
    /\ task' = SetTask(t, [task[t] EXCEPT !.pc = "join"])
    /\ UNCHANGED <<callerPc, callers, started, monPc, diskIndex, diskAnalysis,
                   tree, crashes, ioFailures, panics>>
    /\ UNCHANGED libVars

\* Lines 159-165: monitor_handle.join(), then the result is logged.
JoinMonitor(t) ==
    /\ task[t].pc = "join"
    /\ monPc[t] = "exited"
    /\ task' = SetTask(t, [task[t] EXCEPT !.pc = "done"])
    /\ UNCHANGED <<progress, callerPc, callers, started, monPc, diskIndex,
                   diskAnalysis, tree, crashes, ioFailures, panics>>
    /\ UNCHANGED libVars

\* Another thread is at a write-lock block of ScanProgress, so that a
\* try_read or try_write of task t's monitor can find the lock taken.
LockContended(t) ==
    \/ \E c \in callers : callerPc[c] = "checked"
    \/ \E u \in Tasks : task[u].pc \in {"walk", "diff", "merge", "ret"}
    \/ \E u \in Tasks \ {t} : monPc[u] = "sample"

\* Lines 101-111: after the sleep, try_read gives is_scanning; the loop breaks
\* when it is false.
MonitorCheck(t) ==
    /\ monPc[t] = "sleep"
    /\ monPc' = [monPc EXCEPT ![t] = IF progress.is_scanning THEN "sample" ELSE "exited"]
    /\ UNCHANGED <<progress, callerPc, callers, started, task, diskIndex,
                   diskAnalysis, tree, crashes, ioFailures, panics>>
    /\ UNCHANGED libVars

\* Lines 104-107: try_read fails (Err(_) => true): the loop goes on.
MonitorCheckBlocked(t) ==
    /\ monPc[t] = "sleep"
    /\ LockContended(t)
    /\ monPc' = [monPc EXCEPT ![t] = "sample"]
    /\ UNCHANGED <<progress, callerPc, callers, started, task, diskIndex,
                   diskAnalysis, tree, crashes, ioFailures, panics>>
    /\ UNCHANGED libVars

\* Lines 135-139, under the write lock.
SampleProgress(p, t) == [p EXCEPT !.elapsed_secs = t, !.resources = t]

\* Lines 113-140: the sample is taken and try_write succeeds.
MonitorSample(t) ==
    /\ monPc[t] = "sample"
    /\ progress' = SampleProgress(progress, t)
    /\ monPc' = [monPc EXCEPT ![t] = "sleep"]
    /\ UNCHANGED <<callerPc, callers, started, task, diskIndex, diskAnalysis,
                   tree, crashes, ioFailures, panics>>
    /\ UNCHANGED libVars

\* Line 134: try_write fails and the sample is dropped.
MonitorSampleBlocked(t) ==
    /\ monPc[t] = "sample"
    /\ LockContended(t)
    /\ monPc' = [monPc EXCEPT ![t] = "sleep"]
    /\ UNCHANGED <<progress, callerPc, callers, started, task, diskIndex,
                   diskAnalysis, tree, crashes, ioFailures, panics>>
    /\ UNCHANGED libVars

\* ------------------------------------------------------------------ crash
\* The process dies while a scan is under way and is started again: every
\* thread and all memory is gone, ScanManager::new() gives a default
\* ScanProgress, the store files are as the crash left them.
Crash ==
    /\ FaultBudget
    /\ \E t \in Tasks : task[t].pc \notin {"none", "done", "killed"}
    /\ crashes' = crashes + 1
    /\ progress' = DefaultProgress
    /\ callerPc' = [c \in Callers |-> "idle"]
    /\ task' = [t \in Tasks |->
                  IF task[t].pc \in {"none", "done"} THEN task[t]
                  ELSE NoLocals("killed", "none")]
    /\ monPc' = [t \in Tasks |-> IF monPc[t] = "none" THEN "none" ELSE "exited"]
    /\ UNCHANGED <<callers, started, diskIndex, diskAnalysis, tree, ioFailures, panics>>
    /\ UNCHANGED libVars

\* ------------------------------------------------------------------- Next
\* run_scan_logic on its blocking thread, and the task around it up to the
\* cleanup.
RunStep(t) ==
    \/ TaskBegin(t)
    \/ LoadIndex(t)
    \/ LoadAnalysis(t)
    \/ Enumerate(t)
    \/ DiffPhase(t)
    \/ RunWorkers(t)
    \/ MergeChunk(t)
    \/ SaveOpen(t)
    \/ SaveWrite(t)
    \/ Cleanup(t)

MonitorStep(t) ==
    \/ MonitorCheck(t)
    \/ MonitorCheckBlocked(t)
    \/ MonitorSample(t)
    \/ MonitorSampleBlocked(t)

Fault(t) ==
    \/ WorkerPanic(t)
    \/ SaveOpenFails(t)
    \/ SaveWriteFails(t)

\* The steps of the spawned task t, its blocking thread included.
TaskStep(t) == RunStep(t) \/ JoinMonitor(t)

\* The ScanManager with its threads: handlers, tasks, monitors.
Next ==
    \/ \E c \in Callers : StartScanBusy(c)
    \/ \E c \in Callers : StartScanCheck(c)
    \/ \E c \in Callers : StartScanSpawn(c)
    \/ \E t \in Tasks : RunStep(t)
    \/ \E t \in Tasks : JoinMonitor(t)
    \/ \E t \in Tasks : MonitorStep(t)
    \/ \E t \in Tasks : Fault(t)

\* The scans and the store files, with process crashes.  The monitor thread,
\* which writes only elapsed_secs and resources, is left to Next.
NextScan ==
    \/ \E c \in Callers : StartScanBusy(c)
    \/ \E c \in Callers : StartScanCheck(c)
    \/ \E c \in Callers : StartScanSpawn(c)
    \/ \E t \in Tasks : RunStep(t)
    \/ \E t \in Tasks : Fault(t)
    \/ Crash

\* The ScanManager under concurrent start_scan calls, over a small tree.
Spec == Init /\ [][Next]_vars

\* One handler thread, its start_scan calls one after the other, with the
\* tasks and monitor threads they spawn.
InitSerial == InitWith({1}, PlainKinds, SmallSizes) /\ LibIdle

SerialSpec == InitSerial /\ [][Next]_vars

\* The same with the scheduling the runtimes give: a spawned task with its
\* blocking thread keeps running, and so does its monitor, an OS thread of
\* its own.  No fault is ever required to happen.
FairSpec ==
    /\ Init
    /\ [][Next]_vars
    /\ \A t \in Tasks : WF_vars(TaskStep(t)) /\ WF_vars(MonitorStep(t))

\* One handler thread (start_scan calls one after the other), over small trees
\* of every kind and over trees large enough for checkpoints.
ScanSpec == InitScan /\ [][NextScan]_vars

\* ==================================================== files written to
\* Scans over a tree whose files other programs write to meanwhile.
\* A file of the tree is modified while the scan of task t is in its diff
\* phase, its current_time taken and the file's metadata not yet read: the
\* write is stamped with the clock, which has moved on.
Touch(p) ==
    /\ \E t \in Tasks :
          /\ task[t].pc = "diff"
          /\ p \in Range(scan_directory)
          /\ MetadataOk(p)
          /\ p \notin DOMAIN tree.touched
          /\ tree' = [tree EXCEPT !.touched = Put(@, p, Now(t) + 1)]
    /\ UNCHANGED <<progress, callerPc, callers, started, task, monPc, diskIndex,
                   diskAnalysis, crashes, ioFailures, panics>>
    /\ UNCHANGED libVars

\* The paths of the small trees.
SmallPaths == 1..(MaxVaried + MaxSmallTail)

NextTouch ==
    \/ \E c \in Callers : StartScanBusy(c)
    \/ \E c \in Callers : StartScanCheck(c)
    \/ \E c \in Callers : StartScanSpawn(c)
    \/ \E t \in Tasks : RunStep(t)
    \/ \E p \in SmallPaths : Touch(p)

TouchSpec == InitSerial /\ [][NextTouch]_vars

\* ============================================================ worker pool
\* The process phase of a scan as the threads of its rayon pool run it: each
\* pool thread takes one file at a time through worker::process_file.
MaxWorkers == 4
MaxCpus == 6
MaxPending == 6

Max(a, b) == IF a > b THEN a ELSE b

\* std::thread::available_parallelism(): 0 stands for Err, else the count.
Cpus == 0..MaxCpus

\* scan_manager.rs lines 250-258: available_parallelism, 2 when it is not
\* known, less one, at least 1, at most 4.
num_threads(cpus) ==
    LET n == IF cpus = 0 THEN 2 ELSE cpus
    IN  Min(Max(1, Max(n - 1, 0)), MaxWorkers)

\* rayon's global pool, which main.rs run_scan uses as it is: one thread per
\* logical cpu, one when the count is not known.
global_pool_threads(cpus) == IF cpus = 0 THEN 1 ELSE cpus

\* The pool a scan entry point runs its par_iter on: "serve" is
\* ScanManager::run_scan_logic (own pool, lines 259-264), "cli" is main.rs
\* run_scan (no pool is built, lines 255-264).
PoolThreads(entry, cpus) ==
    IF entry = "serve" THEN num_threads(cpus) ELSE global_pool_threads(cpus)

InitPool ==
    /\ ScanIdle
    /\ call = NoCall
    /\ ret = NoCall
    /\ classifier = NoClassifier
    /\ \E entry \in {"serve", "cli"}, cpus \in Cpus, n \in 1..MaxPending :
          pool = [entry |-> entry, cpus |-> cpus,
                  threads |-> PoolThreads(entry, cpus),
                  pending |-> n, active |-> 0]

\* An idle pool thread takes the next file of the par_iter.
WorkerStart ==
    /\ pool.entry # "none"
    /\ pool.pending > 0
    /\ pool.active < pool.threads
    /\ pool' = [pool EXCEPT !.pending = @ - 1, !.active = @ + 1]
    /\ UNCHANGED <<scanVars, call, ret, classifier>>

\* process_file returns on a pool thread.
WorkerFinish ==
    /\ pool.entry # "none"
    /\ pool.active > 0
    /\ pool' = [pool EXCEPT !.active = @ - 1]
    /\ UNCHANGED <<scanVars, call, ret, classifier>>

NextPool == WorkerStart \/ WorkerFinish

\* The process phase of either entry point, on machines of 1..MaxCpus cpus.
PoolSpec == InitPool /\ [][NextPool]_vars

\* ================================================ process phase by worker
\* The process phase with each worker of the chunk as a thread of its own:
\* chunk.par_iter().map_init(..).collect() (lines 272-288) hands the chunk's
\* items to the pool's threads and returns when every item has a result.
MaxPhaseCpus == 3

\* The machines the phase is run on: pools of one thread and of more.
PhaseCpus == 2..MaxPhaseCpus

\* Trees with a full chunk and a shorter last one.
PhaseSizes == {batch_size + r : r \in 0..MaxRemainder}

\* File names: all valid UTF-8, all but the last file's, or none.
PhaseNames == {"utf8", "last_not", "none_utf8"}

\* Lines 250-262: the pool run_scan_logic builds, idle.  taken: the items of
\* the chunk handed to a thread so far; running: the items a thread is at;
\* done: the results collected, by item.
PhasePool(cpus) ==
    [entry |-> "serve", cpus |-> cpus, threads |-> num_threads(cpus),
     taken |-> 0, running |-> {}, done |-> <<>>]

InitPhase ==
    /\ InitTree({1}, PlainKinds, PhaseSizes, PhaseNames)
    /\ call = NoCall
    /\ ret = NoCall
    /\ classifier = NoClassifier
    /\ \E cpus \in PhaseCpus : pool = PhasePool(cpus)

\* The chunk the coordinator of task t is at.
CurrentChunk(t) == ChunkAt(task[t].files_to_process, task[t].next_chunk)

\* Lines 265-273: the coordinator enters par_iter with the next chunk.
SubmitChunk(t) ==
    /\ task[t].pc = "chunk"
    /\ task' = SetTask(t, [task[t] EXCEPT !.pc = "workers"])
    /\ pool' = [pool EXCEPT !.taken = 0, !.running = {}, !.done = <<>>]
    /\ UNCHANGED <<progress, callerPc, callers, started, monPc, diskIndex,
                   diskAnalysis, tree, crashes, ioFailures, panics>>
    /\ UNCHANGED <<call, ret, classifier>>

\* An idle thread of the pool takes the chunk's next item (lines 276-284).
WorkerTake(t) ==
    /\ task[t].pc = "workers"
    /\ pool.taken < Len(CurrentChunk(t))
    /\ Cardinality(pool.running) < pool.threads
    /\ pool' = [pool EXCEPT !.taken = @ + 1, !.running = @ \cup {pool.taken + 1}]
    /\ UNCHANGED scanVars
    /\ UNCHANGED <<call, ret, classifier>>

\* Line 285: process_file has returned on a thread; the item's tuple goes to
\* its place in the collected Vec.
WorkerReturn(t) ==
    /\ task[t].pc = "workers"
    /\ \E i \in pool.running :
          LET item == CurrentChunk(t)[i]
          IN  pool' = [pool EXCEPT
                  !.running = @ \ {i},
                  !.done = [j \in DOMAIN @ \cup {i} |->
                              IF j = i
                              THEN [path |-> item.path, size |-> item.size,
                                    mtime |-> item.mtime,
                                    result |-> process_file(item.path)]
                              ELSE @[j]]]
    /\ UNCHANGED scanVars
    /\ UNCHANGED <<call, ret, classifier>>

\* CollectChunk returning as soon as every item was handed to a thread, with
\* the results there are.
CollectChunk_onLastTaken(t) ==
    /\ task[t].pc = "workers"
    /\ pool.taken = Len(CurrentChunk(t))
    /\ DOMAIN pool.done # {}
    /\ task' = SetTask(t, [task[t] EXCEPT
            !.pc = "merge",
            !.chunk_results = SelectSeq([i \in 1..Len(CurrentChunk(t)) |->
                                  IF i \in DOMAIN pool.done THEN pool.done[i]
                                  ELSE [path |-> 0]],
                                        LAMBDA r : r.path # 0)])
    /\ UNCHANGED <<progress, callerPc, callers, started, monPc, diskIndex,
                   diskAnalysis, tree, crashes, ioFailures, panics>>
    /\ UNCHANGED libVars

\* Line 288: collect() returns once every item of the chunk has its result,
\* the results in the chunk's order.
CollectChunk(t) ==
    /\ task[t].pc = "workers"
    /\ pool.taken = Len(CurrentChunk(t))
    /\ pool.running = {}
    /\ task' = SetTask(t, [task[t] EXCEPT
            !.pc = "merge",
            !.chunk_results = [i \in 1..Len(CurrentChunk(t)) |-> pool.done[i]]])
    /\ UNCHANGED <<progress, callerPc, callers, started, monPc, diskIndex,
                   diskAnalysis, tree, crashes, ioFailures, panics>>
    /\ UNCHANGED libVars

\* run_scan_logic with the chunk's workers as threads, and the task around it.
PhaseStep(t) ==
    \/ TaskBegin(t)
    \/ LoadIndex(t)
    \/ LoadAnalysis(t)
    \/ Enumerate(t)
    \/ DiffPhase(t)
    \/ SubmitChunk(t)
    \/ WorkerTake(t)
    \/ WorkerReturn(t)
    \/ CollectChunk(t)
    \/ MergeChunk(t)
    \/ SaveOpen(t)
    \/ SaveWrite(t)
    \/ Cleanup(t)

NextPhase ==
    \/ \E c \in Callers : StartScanBusy(c)
    \/ \E c \in Callers : StartScanCheck(c)
    \/ \E c \in Callers : StartScanSpawn(c)
    \/ \E t \in Tasks : PhaseStep(t)

\* Scans of one handler thread over trees of more than one chunk, the process
\* phase at the grain of the single worker.
PhaseSpec == InitPhase /\ [][NextPhase]_vars

\* ====================================================== library functions
\* Functions of the library called on their own (by the HTTP handlers of
\* server.rs and by the workers): `call` holds the function and its arguments,
\* `ret` what it returned.
MaxTracks == 3

\* Option<T>: None, Some(x).
None == <<>>
Some(x) == <<x>>

TrackPaths == 1..MaxTracks

\* The orders a HashMap of the keys S can be iterated in.
Orders(S) == {o \in [1..Cardinality(S) -> S] : Range(o) = S}

\* TrackMetadata::default() with the fields a test library sets.
Meta(artist, album, fingerprint, genres) ==
    [artist |-> artist, album |-> album, fingerprint |-> fingerprint,
     genres |-> genres]

\* An IndexedTrack: the path and the metadata.
Track(path, meta) == [path |-> path, metadata |-> meta]

Fingerprints == {"AQAA", "AQAB"}

\* The libraries find_duplicates is called on: every track with no
\* fingerprint or one of two.
DuplicateLibraries ==
    UNION {[S -> {None} \cup {Some(f) : f \in Fingerprints}] : S \in SUBSET TrackPaths}

FindDuplicatesCalls ==
    {[fn |-> "find_duplicates",
      files |-> [p \in DOMAIN fps |-> Track(p, Meta("", None, fps[p], <<>>))]] :
        fps \in DuplicateLibraries}

\* The fingerprints that are keys of `groups` after the loop of lines 47-51.
GroupKeys(files) ==
    {files[p].metadata.fingerprint[1] :
        p \in {q \in DOMAIN files : files[q].metadata.fingerprint # None}}

\* groups[fp] after the loop: the tracks with that fingerprint, pushed in
\* the order self.files.values() yields them.
GroupFor(files, order, fp) ==
    LET hit == SelectSeq(order, LAMBDA p : files[p].metadata.fingerprint = Some(fp))
    IN  [i \in 1..Len(hit) |-> files[hit[i]]]

\* find_duplicates with groups.len() > 0 in the filter.
find_duplicates_keepsSingletons(files, order, keys) ==
    LET all == [i \in 1..Len(keys) |-> GroupFor(files, order, keys[i])]
    IN  SelectSeq(all, LAMBDA g : Len(g) > 0)

\* storage.rs lines 44-54.  order: the iteration order of self.files;
\* keys: that of groups.into_values().
find_duplicates(files, order, keys) ==
    LET all == [i \in 1..Len(keys) |-> GroupFor(files, order, keys[i])]
    IN  SelectSeq(all, LAMBDA g : Len(g) > 1)

FindDuplicates ==
    /\ call.fn = "find_duplicates"
    /\ ret = NoCall
    /\ \E order \in Orders(DOMAIN call.files), keys \in Orders(GroupKeys(call.files)) :
          ret' = [fn |-> call.fn, value |-> find_duplicates(call.files, order, keys)]
    /\ UNCHANGED <<scanVars, pool, call, classifier>>

\* ------------------------------------------------------------ find_similar
\* f32::MAX, what euclidean_distance gives for vectors of different length:
\* above every distance between two vectors of the model.
F32_MAX == 1000

\* str::to_ascii_lowercase on the strings the model's tracks and filters use.
to_ascii_lowercase(s) ==
    CASE s = "ABBA" -> "abba"
      [] s = "Arrival" -> "arrival"
      [] s = "Rock" -> "rock"
      [] s = "Pop" -> "pop"
      [] OTHER -> s

eq_ignore_ascii_case(a, b) == to_ascii_lowercase(a) = to_ascii_lowercase(b)

RECURSIVE SumSquares(_, _, _)
SumSquares(a, b, i) ==
    IF i > Len(a) THEN 0
    ELSE (a[i] - b[i]) * (a[i] - b[i]) + SumSquares(a, b, i + 1)

\* recommend.rs lines 33-43, without the final sqrt, which keeps the order.
euclidean_distance(a, b) ==
    IF Len(a) # Len(b) THEN F32_MAX ELSE SumSquares(a, b, 1)

\* Lines 73-118: the five filters, one .filter() each.
PassesFilters(track, filters) ==
    LET m == track.metadata
    IN  /\ filters.same_artist = None
           \/ eq_ignore_ascii_case(m.artist, filters.same_artist[1])
        /\ filters.same_album = None
           \/ (m.album # None /\ eq_ignore_ascii_case(m.album[1], filters.same_album[1]))
        /\ filters.exclude_album = None
           \/ m.album = None
           \/ ~eq_ignore_ascii_case(m.album[1], filters.exclude_album[1])
        /\ filters.exclude_fingerprint = None
           \/ m.fingerprint = None
           \/ m.fingerprint[1] # filters.exclude_fingerprint[1]
        /\ filters.genre = None
           \/ \E i \in DOMAIN m.genres :
                 eq_ignore_ascii_case(m.genres[i][1], filters.genre[1])

\* One step of the stable sort: x goes behind every element that is not
\* farther than it.
InsertByDistance(sorted, x) ==
    LET before == SelectSeq(sorted, LAMBDA y : y.distance <= x.distance)
        after == SelectSeq(sorted, LAMBDA y : y.distance > x.distance)
    IN  before \o <<x>> \o after

RECURSIVE SortByDistance(_)
\* Lines 131-135: results.sort_by(distance), ascending and stable.
SortByDistance(results) ==
    IF results = <<>> THEN <<>>
    ELSE InsertByDistance(SortByDistance(SubSeq(results, 1, Len(results) - 1)),
                          results[Len(results)])

\* find_similar without the filter that drops the query track.
find_similar_keepsQuery(query_path, files, store, filters, top_k, order) ==
    IF query_path \notin DOMAIN store THEN <<>>
    ELSE LET kept == SelectSeq(order, LAMBDA p :
                        /\ PassesFilters(files[p], filters)
                        /\ files[p].path \in DOMAIN store)
             results == [i \in 1..Len(kept) |->
                           [track |-> files[kept[i]],
                            distance |-> euclidean_distance(store[query_path],
                                                            store[files[kept[i]].path])]]
             sorted == SortByDistance(results)
         IN  SubSeq(sorted, 1, Min(top_k, Len(sorted)))

\* find_similar with the filters joined by `or` where one is set.
find_similar_anyFilter(query_path, files, store, filters, top_k, order) ==
    IF query_path \notin DOMAIN store THEN <<>>
    ELSE LET unset == [f \in DOMAIN filters |-> None]
             only(f) == [unset EXCEPT ![f] = filters[f]]
             kept == SelectSeq(order, LAMBDA p :
                        /\ files[p].path # query_path
                        /\ \/ filters = unset
                           \/ \E f \in DOMAIN filters :
                                 /\ filters[f] # None
                                 /\ PassesFilters(files[p], only(f))
                        /\ files[p].path \in DOMAIN store)
             results == [i \in 1..Len(kept) |->
                           [track |-> files[kept[i]],
                            distance |-> euclidean_distance(store[query_path],
                                                            store[files[kept[i]].path])]]
             sorted == SortByDistance(results)
         IN  SubSeq(sorted, 1, Min(top_k, Len(sorted)))

\* recommend.rs lines 55-141.  order: the iteration order of library.files.
find_similar(query_path, files, store, filters, top_k, order) ==
    IF query_path \notin DOMAIN store THEN <<>>
    ELSE LET kept == SelectSeq(order, LAMBDA p :
                        /\ files[p].path # query_path
                        /\ PassesFilters(files[p], filters)
                        /\ files[p].path \in DOMAIN store)
             results == [i \in 1..Len(kept) |->
                           [track |-> files[kept[i]],
                            distance |-> euclidean_distance(store[query_path],
                                                            store[files[kept[i]].path])]]
             sorted == SortByDistance(results)
         IN  SubSeq(sorted, 1, Min(top_k, Len(sorted)))

\* RecommendFilters::default(): nothing set.
NoFilters ==
    [same_artist |-> None, exclude_album |-> None, same_album |-> None,
     exclude_fingerprint |-> None, genre |-> None]

\* The feature vectors of the model: bliss vectors, and one of another length.
Vectors == {<<0>>, <<1>>, <<0, 0>>}

\* The artist of the track at path p in the libraries of plain tracks.
ArtistAt(p) == IF p = 1 THEN "abba" ELSE IF p = 2 THEN "ABBA" ELSE "queen"

\* Calls over a library of plain tracks: any subset of them has a vector,
\* any path is the query, the artist filter is set or not, top_k is 0..MaxTracks.
PlainSimilarCalls ==
    {[fn |-> "find_similar", query_path |-> q,
      files |-> [p \in TrackPaths |-> Track(p, Meta(ArtistAt(p), None, None, <<>>))],
      store |-> st, filters |-> [NoFilters EXCEPT !.same_artist = a], top_k |-> k] :
        q \in TrackPaths, k \in 0..MaxTracks, a \in {None, Some("abba")},
        st \in UNION {[S -> Vectors] : S \in SUBSET TrackPaths}}

\* The metadata of the one candidate of the calls that exercise the filters.
FilteredMetas ==
    {Meta(ar, al, fp, g) :
        ar \in {"abba", "ABBA", "queen"},
        al \in {None, Some("arrival"), Some("Arrival"), Some("jazz")},
        fp \in {None, Some("AQAA"), Some("AQAB")},
        g \in {<<>>, <<<<"pop", 9>>>>, <<<<"Pop", 9>>, <<"Rock", 5>>>>}}

FilterSets ==
    {[same_artist |-> a, exclude_album |-> x, same_album |-> s,
      exclude_fingerprint |-> f, genre |-> g] :
        a \in {None, Some("abba")}, x \in {None, Some("arrival")},
        s \in {None, Some("arrival")}, f \in {None, Some("AQAA")},
        g \in {None, Some("rock")}}

\* Calls with the query track (path 1) and one candidate (path 2), both with
\* a vector, over every candidate metadata and every set of filters.
FilteredSimilarCalls ==
    {[fn |-> "find_similar", query_path |-> 1,
      files |-> (1 :> Track(1, Meta("abba", Some("arrival"), Some("AQAA"), <<>>))
                 @@ 2 :> Track(2, m)),
      store |-> (1 :> <<0>> @@ 2 :> <<1>>), filters |-> f, top_k |-> 1] :
        m \in FilteredMetas, f \in FilterSets}

FindSimilar ==
    /\ call.fn = "find_similar"
    /\ ret = NoCall
    /\ \E order \in Orders(DOMAIN call.files) :
          ret' = [fn |-> call.fn,
                  value |-> find_similar(call.query_path, call.files, call.store,
                                         call.filters, call.top_k, order)]
    /\ UNCHANGED <<scanVars, pool, call, classifier>>

\* ------------------------------------------------- worker::process_file
\* What the outside world does for one file: whether audio_decoder and the
\* fingerprinter succeed, what the AcoustID request would come to (a match
\* whose MusicBrainz details load or do not, a reply without a match, an
\* HTTP error status, no connection), whether bliss can analyse the file.
LookupOutcomes == {"match", "match_mb_down", "no_match", "http_error", "send_error"}

ProcessFileCalls ==
    {[fn |-> "process_file", decode_ok |-> d, fingerprint_ok |-> f,
      offline |-> o, client_id |-> c, lookup |-> l, bliss_ok |-> b] :
        d \in BOOLEAN, f \in BOOLEAN, o \in BOOLEAN,
        c \in {None, Some("client")}, l \in LookupOutcomes, b \in BOOLEAN}

\* decoded.duration_secs and the fingerprint computed from the decoded samples.
LocalDuration == [secs |-> 180]
LocalFingerprint == "AQAA"

\* organizer::read_tags (lines 62-118): always Ok, title and artist from the
\* tags or the file name, duration 0.0 and no fingerprint.
read_tags == [source |-> "tags", duration |-> [secs |-> 0], fingerprint |-> None]

\* worker.rs lines 31-34 and 40-43: the tag metadata with the local duration
\* and fingerprint filled in.
TagMetadata ==
    [read_tags EXCEPT !.duration = LocalDuration,
                      !.fingerprint = Some(LocalFingerprint)]

\* perform_online_lookup (lines 108-193): Ok(metadata of the first recording
\* of the first result) or Err; a MusicBrainz failure is ignored (line 176).
perform_online_lookup(c) ==
    IF c.lookup \in {"match", "match_mb_down"}
    THEN [ok |-> TRUE,
          meta |-> [source |-> "online", duration |-> LocalDuration,
                    fingerprint |-> Some(LocalFingerprint)],
          requests |-> <<"acoustid", "musicbrainz">>]
    ELSE [ok |-> FALSE, meta |-> read_tags, requests |-> <<"acoustid">>]

\* process_file with the lookup error propagated (perform_online_lookup(..)?).
worker_process_file_failsOnLookupError(c) ==
    IF ~c.decode_ok \/ ~c.fingerprint_ok
    THEN [result |-> "Err", meta |-> read_tags, analysis |-> None, requests |-> <<>>,
          decodes |-> <<"decode_audio">>]
    ELSE IF c.offline \/ c.client_id = None
    THEN [result |-> "Ok", meta |-> TagMetadata,
          analysis |-> IF c.bliss_ok THEN Some(<<0>>) ELSE None, requests |-> <<>>,
          decodes |-> <<"decode_audio", "song_from_path">>]
    ELSE LET l == perform_online_lookup(c)
         IN  IF l.ok
             THEN [result |-> "Ok", meta |-> l.meta,
                   analysis |-> IF c.bliss_ok THEN Some(<<0>>) ELSE None,
                   requests |-> l.requests,
                   decodes |-> <<"decode_audio", "song_from_path">>]
             ELSE [result |-> "Err", meta |-> read_tags, analysis |-> None,
                   requests |-> l.requests, decodes |-> <<"decode_audio">>]

\* worker.rs lines 15-58: decode and fingerprint (Err ends the file), the
\* metadata from tags or from the lookup with the tags as fallback, the bliss
\* vector or None.  requests: the external requests sent on the way.
\* decodes: the calls that read and decode the file, audio_decoder::decode_audio
\* (line 21) and bliss's SymphoniaDecoder::song_from_path (line 49).
worker_process_file(c) ==
    IF ~c.decode_ok \/ ~c.fingerprint_ok
    THEN [result |-> "Err", meta |-> read_tags, analysis |-> None, requests |-> <<>>,
          decodes |-> <<"decode_audio">>]
    ELSE IF c.offline \/ c.client_id = None
    THEN [result |-> "Ok", meta |-> TagMetadata,
          analysis |-> IF c.bliss_ok THEN Some(<<0>>) ELSE None, requests |-> <<>>,
          decodes |-> <<"decode_audio", "song_from_path">>]
    ELSE LET l == perform_online_lookup(c)
         IN  [result |-> "Ok",
              meta |-> IF l.ok THEN l.meta ELSE TagMetadata,
              analysis |-> IF c.bliss_ok THEN Some(<<0>>) ELSE None,
              requests |-> l.requests,
              decodes |-> <<"decode_audio", "song_from_path">>]

ProcessFile ==
    /\ call.fn = "process_file"
    /\ ret = NoCall
    /\ ret' = [fn |-> call.fn, value |-> worker_process_file(call)]
    /\ UNCHANGED <<scanVars, pool, call, classifier>>

\* ------------------------------------- organizer: metadata from file name
\* File names are sequences of characters; a stem is made of letters, spaces
\* and dashes, and the name is the stem with an extension.
MaxStem == 9

StemChars == {"a", " ", "-"}

Stems == UNION {[1..n -> StemChars] : n \in 1..MaxStem}

Extension == <<".", "m">>

ParseFilenameCalls ==
    {[fn |-> "parse_metadata_from_filename", filename |-> stem \o Extension] :
        stem \in Stems}

\* The positions of character c in s.
PositionsOf(s, c) == {i \in DOMAIN s : s[i] = c}

\* Path::file_stem: the name up to its last '.', the whole name when it has
\* none or only a leading one.
file_stem(name) ==
    LET dots == PositionsOf(name, ".") \ {1}
    IN  IF dots = {} THEN name
        ELSE SubSeq(name, 1, (CHOOSE i \in dots : \A j \in dots : j <= i) - 1)

\* pat occurs in s at position i.
MatchesAt(s, pat, i) ==
    i + Len(pat) - 1 <= Len(s) /\ SubSeq(s, i, i + Len(pat) - 1) = pat

RECURSIVE split(_, _)
\* str::split: the pieces between the matches of pat, found left to right
\* without overlap.
split(s, pat) ==
    LET hits == {i \in DOMAIN s : MatchesAt(s, pat, i)}
    IN  IF hits = {} THEN <<s>>
        ELSE LET i == CHOOSE h \in hits : \A k \in hits : h <= k
             IN  <<SubSeq(s, 1, i - 1)>>
                     \o split(SubSeq(s, i + Len(pat), Len(s)), pat)

\* str::trim: without the spaces at either end.
trim(s) ==
    LET inked == {i \in DOMAIN s : s[i] # " "}
    IN  IF inked = {} THEN <<>>
        ELSE SubSeq(s, CHOOSE i \in inked : \A j \in inked : i <= j,
                       CHOOSE i \in inked : \A j \in inked : j <= i)

RECURSIVE join(_, _)
\* [&str]::join
join(parts, sep) ==
    IF Len(parts) = 0 THEN <<>>
    ELSE IF Len(parts) = 1 THEN parts[1]
    ELSE parts[1] \o sep \o join(Tail(parts), sep)

\* organizer.rs lines 22-60: (title, artist).
parse_metadata_from_filename(filename) ==
    LET stem == file_stem(filename)
        parts == split(stem, <<" ", "-", " ">>)
        parts_dash == split(stem, <<"-">>)
    IN  IF Len(parts) = 2
        THEN <<Some(trim(parts[1])), Some(trim(parts[2]))>>
        ELSE IF Len(parts) < 2 /\ Len(parts_dash) >= 2
        THEN <<Some(trim(join(SubSeq(parts_dash, 1, Len(parts_dash) - 1), <<"-">>))),
               Some(trim(parts_dash[Len(parts_dash)]))>>
        ELSE <<Some(stem), None>>

ParseFilename ==
    /\ call.fn = "parse_metadata_from_filename"
    /\ ret = NoCall
    /\ ret' = [fn |-> call.fn, value |-> parse_metadata_from_filename(call.filename)]
    /\ UNCHANGED <<scanVars, pool, call, classifier>>

LibCalls ==
    FindDuplicatesCalls \cup PlainSimilarCalls \cup FilteredSimilarCalls
        \cup ProcessFileCalls \cup ParseFilenameCalls

InitLib ==
    /\ ScanIdle
    /\ pool = NoPool
    /\ classifier = NoClassifier
    /\ ret = NoCall
    /\ call \in LibCalls

NextLib == FindDuplicates \/ FindSimilar \/ ProcessFile \/ ParseFilename

\* Each library function called once, on every input of its bounded domain.
LibSpec == InitLib /\ [][NextLib]_vars

\* ================================================ online lookups in time
\* The external requests of the workers of an online scan against the clock,
\* in seconds: each pool thread takes its files one after the other through
\* worker::perform_online_lookup.
MaxLookupWorkers == 2
MaxLookupFiles == 2
MaxClock == 2

LookupWorkers == 1..MaxLookupWorkers

\* musicbrainz.rs lines 76 and 100: thread::sleep(Duration::from_secs(1)).
RateLimitPause == 1

\* A pool thread between two files, with `files` files still to look up.
IdleWorker(files) == [pc |-> "idle", files |-> files, wake |-> 0]

InitLookup ==
    /\ ScanIdle
    /\ call = NoCall
    /\ ret = NoCall
    /\ classifier = NoClassifier
    /\ \E n \in LookupWorkers, files \in 1..MaxLookupFiles :
          pool = [entry |-> "lookup", now |-> 0,
                  worker |-> [w \in 1..n |-> IdleWorker(files)],
                  sent |-> <<>>]

\* The pool with worker w at st and, when host is given, a request to that
\* host sent now.
LookupStep(w, st, host) ==
    [pool EXCEPT !.worker[w] = st,
                 !.sent = IF host = None THEN @
                          ELSE Append(@, [host |-> host[1], at |-> pool.now,
                                          by |-> w])]

\* The worker is done with its file.
FileDone(w) == IdleWorker(pool.worker[w].files - 1)

\* acoustid.rs lines 31-62, called from worker.rs line 119: the request is
\* posted; only a match goes on to MusicBrainz.
LookupFingerprint(w) ==
    /\ pool.entry = "lookup"
    /\ w \in DOMAIN pool.worker
    /\ pool.worker[w].pc = "idle"
    /\ pool.worker[w].files > 0
    /\ \E outcome \in LookupOutcomes :
          pool' = LookupStep(w,
                     IF outcome \in {"match", "match_mb_down"}
                     THEN [pool.worker[w] EXCEPT !.pc = "recording"]
                     ELSE FileDone(w),
                     Some("acoustid"))
    /\ UNCHANGED <<scanVars, call, ret, classifier>>

\* musicbrainz.rs lines 64-83: the request is sent; a send error returns at
\* once (line 74), otherwise the thread sleeps one second (line 76).
FetchRecordingDetails(w) ==
    /\ pool.entry = "lookup"
    /\ w \in DOMAIN pool.worker
    /\ pool.worker[w].pc = "recording"
    /\ \E sent_ok \in BOOLEAN :
          pool' = LookupStep(w,
                     IF sent_ok
                     THEN [pool.worker[w] EXCEPT
                              !.pc = "recording_sleep",
                              !.wake = pool.now + RateLimitPause]
                     ELSE FileDone(w),
                     Some("musicbrainz"))
    /\ UNCHANGED <<scanVars, call, ret, classifier>>

\* musicbrainz.rs lines 85-104: the work request is sent; a send error
\* returns at once (line 96), otherwise the thread sleeps one second.
FetchWorkRecordings(w) ==
    /\ pool.entry = "lookup"
    /\ w \in DOMAIN pool.worker
    /\ pool.worker[w].pc = "work"
    /\ \E sent_ok \in BOOLEAN :
          pool' = LookupStep(w,
                     IF sent_ok
                     THEN [pool.worker[w] EXCEPT
                              !.pc = "work_sleep",
                              !.wake = pool.now + RateLimitPause]
                     ELSE FileDone(w),
                     Some("musicbrainz"))
    /\ UNCHANGED <<scanVars, call, ret, classifier>>

\* The sleep is over.  After fetch_recording_details the recording has a
\* work relation to follow (worker.rs lines 141-146) or the file is done;
\* after fetch_work_recordings the file is done.
LookupWake(w) ==
    /\ pool.entry = "lookup"
    /\ w \in DOMAIN pool.worker
    /\ pool.worker[w].pc \in {"recording_sleep", "work_sleep"}
    /\ pool.now >= pool.worker[w].wake
    /\ \E has_work \in BOOLEAN :
          pool' = LookupStep(w,
                     IF pool.worker[w].pc = "recording_sleep" /\ has_work
                     THEN [pool.worker[w] EXCEPT !.pc = "work"]
                     ELSE FileDone(w),
                     None)
    /\ UNCHANGED <<scanVars, call, ret, classifier>>

\* A second passes.
Tick ==
    /\ pool.entry = "lookup"
    /\ pool.now < MaxClock
    /\ pool' = [pool EXCEPT !.now = @ + 1]
    /\ UNCHANGED <<scanVars, call, ret, classifier>>

NextLookup ==
    \/ \E w \in LookupWorkers : LookupFingerprint(w)
    \/ \E w \in LookupWorkers : FetchRecordingDetails(w)
    \/ \E w \in LookupWorkers : FetchWorkRecordings(w)
    \/ \E w \in LookupWorkers : LookupWake(w)
    \/ Tick

\* The lookups of an online scan on 1..MaxLookupWorkers pool threads.
LookupSpec == InitLookup /\ [][NextLookup]_vars

\* ======================================================= genre classifier
\* genre_classifier.rs with the genre-onnx feature: the global MODEL_DIR, set
\* at most once by init_models, and each thread's MODELS, loaded by the
\* thread's first classify call.
NumLabels == 87
MaxThreads == 2
MaxTopK == 3
MaxExtraActivations == 1

Threads == 1..MaxThreads

\* An f32: a number, or NaN.
F(v) == [nan |-> FALSE, v |-> v]
NaN == [nan |-> TRUE, v |-> 0]

\* f32::partial_cmp: None when either side is NaN.
partial_cmp(a, b) ==
    IF a.nan \/ b.nan THEN None
    ELSE Some(IF a.v < b.v THEN "Less" ELSE IF a.v > b.v THEN "Greater" ELSE "Equal")

\* GENRE_LABELS.get(i).unwrap_or(&"unknown"), positions counted from 1.
Unknown == [known |-> FALSE, index |-> 0]
GENRE_LABELS(i) == IF i <= NumLabels THEN [known |-> TRUE, index |-> i] ELSE Unknown

\* The model directory passed to init_models: which of the two files exist.
ModelDirs == [embedding : BOOLEAN, classifier : BOOLEAN]

\* The activation vectors the classifier session may return: every short
\* one, and ones about as long as the label table whose last entry is the
\* largest or is NaN.
ShortActivations ==
    UNION {[1..n -> {F(0), F(1), NaN}] : n \in 0..2}

LongActivations ==
    {[i \in 1..n |-> IF i = 1 THEN F(1) ELSE IF i = n THEN last ELSE F(0)] :
        n \in {NumLabels + d : d \in 0..MaxExtraActivations}, last \in {F(2), NaN}}

Activations == ShortActivations \cup LongActivations

\* classify's arguments other than the thread it is called on, and what the
\* pipeline under it comes to: audio too short for one patch, a failed
\* session run, or an activation vector.
ClassifyCalls ==
    {[fn |-> "classify", top_k |-> k, pipeline |-> pl, activations |-> <<>>] :
        k \in 0..MaxTopK, pl \in {"too_short", "inference_error"}}
    \cup
    {[fn |-> "classify", top_k |-> k, pipeline |-> "activations", activations |-> a] :
        k \in 0..MaxTopK, a \in Activations}

InitClassifier ==
    /\ ScanIdle
    /\ pool = NoPool
    /\ call \in ClassifyCalls
    /\ ret = NoCall
    /\ \E d \in ModelDirs :
          classifier = [MODEL_DIR |-> None, MODELS |-> [th \in Threads |-> FALSE],
                        init_called |-> FALSE, model_dir |-> d]

\* init_models that stores the directory without looking for the files.
init_models_ignoresMissing(c) ==
    IF c.MODEL_DIR # None THEN [c EXCEPT !.init_called = TRUE]
    ELSE [c EXCEPT !.init_called = TRUE, !.MODEL_DIR = Some("model_dir")]

\* init_models, lines 155-191: nothing when MODEL_DIR is set or a file is
\* missing, else MODEL_DIR is set.  Ok(()) in every case.  (init_called
\* records that the function ran.)
init_models(c) ==
    IF c.MODEL_DIR # None THEN [c EXCEPT !.init_called = TRUE]
    ELSE IF ~c.model_dir.embedding \/ ~c.model_dir.classifier
    THEN [c EXCEPT !.init_called = TRUE]
    ELSE [c EXCEPT !.init_called = TRUE, !.MODEL_DIR = Some("model_dir")]

InitModels ==
    /\ call.fn = "classify"
    /\ classifier' = init_models(classifier)
    /\ ret' = [fn |-> "init_models", thread |-> 0,
               value |-> [result |-> "Ok", genres |-> <<>>, inference |-> FALSE]]
    /\ UNCHANGED <<scanVars, pool, call>>

\* load_thread_models, lines 207-255: [ok, c].  The sessions are built from
\* the two files when MODEL_DIR is set; with MODEL_DIR unset MODELS stays None.
load_thread_models(c, th) ==
    IF c.MODELS[th] THEN [ok |-> TRUE, c |-> c]
    ELSE IF c.MODEL_DIR = None THEN [ok |-> TRUE, c |-> c]
    ELSE IF c.model_dir.embedding /\ c.model_dir.classifier
    THEN [ok |-> TRUE, c |-> [c EXCEPT !.MODELS[th] = TRUE]]
    ELSE [ok |-> FALSE, c |-> c]

\* Lines 446-453: one GenreResult per activation, in position order.
LocalResults(probs) ==
    [i \in DOMAIN probs |-> [label |-> GENRE_LABELS(i), confidence |-> probs[i]]]

\* Where the stable sort by confidence, descending, puts the element at
\* position i: behind every larger one and every equal one that came before.
RankByConfidence(results, i) ==
    1 + Cardinality({j \in DOMAIN results :
                        \/ results[j].confidence.v > results[i].confidence.v
                        \/ /\ results[j].confidence.v = results[i].confidence.v
                           /\ j < i})

SortByConfidence(results) ==
    LET rank == [i \in DOMAIN results |-> RankByConfidence(results, i)]
    IN  [r \in DOMAIN results |-> results[CHOOSE i \in DOMAIN results : rank[i] = r]]

\* Line 455: sort_by(|a, b| b.confidence.partial_cmp(&a.confidence).unwrap())
\* compares every element of a vector of two or more with another one, and
\* the unwrap panics on None.
SortPanics(probs) ==
    /\ Len(probs) >= 2
    /\ \E i, j \in DOMAIN probs : i # j /\ partial_cmp(probs[j], probs[i]) = None

\* classify, lines 258-480, on thread th: [result, genres, inference, c].
classify(c, a, th) ==
    LET loaded == load_thread_models(c, th)
    IN  IF ~loaded.ok
        THEN [result |-> "Err", genres |-> <<>>, inference |-> FALSE, c |-> c]
        ELSE IF ~loaded.c.MODELS[th]
        THEN [result |-> "Ok", genres |-> <<>>, inference |-> FALSE, c |-> loaded.c]
        ELSE IF a.pipeline = "too_short"
        THEN [result |-> "Ok", genres |-> <<>>, inference |-> FALSE, c |-> loaded.c]
        ELSE IF a.pipeline = "inference_error"
        THEN [result |-> "Err", genres |-> <<>>, inference |-> TRUE, c |-> loaded.c]
        ELSE IF SortPanics(a.activations)
        THEN [result |-> "Panic", genres |-> <<>>, inference |-> TRUE, c |-> loaded.c]
        ELSE LET sorted == SortByConfidence(LocalResults(a.activations))
             IN  [result |-> "Ok",
                  genres |-> [r \in 1..Min(a.top_k, Len(a.activations)) |-> sorted[r]],
                  inference |-> TRUE, c |-> loaded.c]

Classify ==
    /\ call.fn = "classify"
    /\ \E th \in Threads :
          LET r == classify(classifier, call, th)
          IN  /\ ret' = [fn |-> "classify", thread |-> th,
                         value |-> [result |-> r.result, genres |-> r.genres,
                                    inference |-> r.inference]]
              /\ classifier' = r.c
    /\ UNCHANGED <<scanVars, pool, call>>

NextClassifier == InitModels \/ Classify

\* init_models and classify calls in any order, on MaxThreads threads, for a
\* model directory with or without each of its two files.
ClassifierSpec == InitClassifier /\ [][NextClassifier]_vars

\* ======================================== genre classifier: framing audio
\* classify from the resampled audio to the patches (lines 279-306), on a
\* thread whose models are loaded and for audio already at TARGET_SR.
N_FFT == 1024
HOP_LENGTH == 512
PATCH_FRAMES == 128
MaxMelFrames == 260

\* usize arithmetic as the build does it: with overflow checks (debug) a
\* subtraction below zero panics, without them (release) it wraps.
Builds == {"overflow_checks", "wrapping"}

\* Lengths of the resampled audio: every length up to one hop past the first
\* window, and the first and last length of each frame count after that.
MelLengths ==
    0..(N_FFT + HOP_LENGTH)
    \cup {N_FFT + HOP_LENGTH * f + r : f \in 0..MaxMelFrames, r \in {0, HOP_LENGTH - 1}}

FramingCalls ==
    {[fn |-> "classify_framing", samples |-> n, build |-> b] :
        n \in MelLengths, b \in Builds}

\* a - b in usize: `wrapped` says the true result is v + 2^64.
usize_sub(a, b) == [wrapped |-> a < b, v |-> a - b]

\* Line 533: (samples.len() - N_FFT) / HOP_LENGTH + 1.  2^64 is a multiple of
\* HOP_LENGTH, so the quotient of a wrapped difference is 2^64 / HOP_LENGTH
\* plus the floor quotient of v.
num_frames(len) ==
    LET d == usize_sub(len, N_FFT)
    IN  [wrapped |-> d.wrapped, v |-> (d.v \div HOP_LENGTH) + 1]

\* create_patches, lines 625-643: the starts of the patches.
RECURSIVE PatchStarts(_, _)
PatchStarts(start, frames) ==
    IF start + PATCH_FRAMES <= frames
    THEN <<start>> \o PatchStarts(start + (PATCH_FRAMES \div 2), frames)
    ELSE <<>>

create_patches(frames) == IF frames < PATCH_FRAMES THEN <<>> ELSE PatchStarts(0, frames)

\* compute_log_mel_spectrogram, lines 530-573: the frame count; a panic at
\* the subtraction when it is checked; a wrapped count is not 0 (line 534) and
\* Array2::zeros((num_frames, N_MELS)) panics on a size of more than
\* isize::MAX bytes (line 547).
compute_log_mel_spectrogram(len, build) ==
    LET n == num_frames(len)
    IN  IF n.wrapped
        THEN [panic |-> TRUE, rows |-> 0,
              at |-> IF build = "overflow_checks" THEN "subtraction"
                     ELSE "allocation"]
        ELSE [panic |-> FALSE, rows |-> n.v, at |-> "none"]

\* classify, lines 286-306 and what follows them: Ok(empty) without
\* inference when there are fewer than PATCH_FRAMES rows or no patch, else
\* the patches go to the embedding model.
classify_framing(c) ==
    LET mel == compute_log_mel_spectrogram(c.samples, c.build)
        patches == create_patches(mel.rows)
    IN  IF mel.panic
        THEN [result |-> "Panic", rows |-> 0, patches |-> <<>>, inference |-> FALSE,
              at |-> mel.at]
        ELSE IF mel.rows < PATCH_FRAMES \/ patches = <<>>
        THEN [result |-> "Ok", rows |-> mel.rows, patches |-> <<>>,
              inference |-> FALSE, at |-> "none"]
        ELSE [result |-> "Ok", rows |-> mel.rows, patches |-> patches,
              inference |-> TRUE, at |-> "none"]

InitFraming ==
    /\ ScanIdle
    /\ pool = NoPool
    /\ call \in FramingCalls
    /\ ret = NoCall
    /\ classifier = NoClassifier

ClassifyFraming ==
    /\ call.fn = "classify_framing"
    /\ ret = NoCall
    /\ ret' = [fn |-> call.fn, value |-> classify_framing(call)]
    /\ UNCHANGED <<scanVars, pool, call, classifier>>

\* classify on audio of every length of MelLengths, in either build.
FramingSpec == InitFraming /\ [][ClassifyFraming]_vars

\* ================================ audio_decoder: samples to signed 16 bit
\* convert_to_i16 (audio_decoder.rs lines 279-417) on one sample of an
\* integer format.  A sample is held as the bits the conversion shifts out
\* (lo) and the bits above them (hi): S24/U24 lose 8 bits, S32/U32 lose 16,
\* the other formats none.
I16_MIN == -32768
I16_MAX == 32767

IntFormats == {"S8", "U8", "S16", "U16", "S24", "U24", "S32", "U32"}

\* The bits `val >> n` drops for the format: n.
ShiftOf(fmt) ==
    CASE fmt \in {"S24", "U24"} -> 8
      [] fmt \in {"S32", "U32"} -> 16
      [] OTHER -> 0

\* 2^n for the shifts in use.
Pow2(n) == CASE n = 0 -> 1 [] n = 8 -> 256 [] n = 16 -> 65536

\* The values of the bits above the shifted-out ones.
HiRange(fmt) ==
    CASE fmt = "S8" -> -128..127
      [] fmt = "U8" -> 0..255
      [] fmt \in {"S16", "S24", "S32"} -> I16_MIN..I16_MAX
      [] fmt \in {"U16", "U24", "U32"} -> 0..65535

\* The shifted-out bits taken: all clear and all set.
LoValues(fmt) == {0, Pow2(ShiftOf(fmt)) - 1}

\* convert_to_i16's sample: the buffer's format and the sample's bits.
ConvertCall(fmt, hi, lo) ==
    [fn |-> "convert_to_i16", format |-> fmt, hi |-> hi, lo |-> lo]

\* `x as i16`: the low 16 bits, as a signed number.
as_i16(x) == ((x - I16_MIN) % 65536) + I16_MIN

\* `val >> ShiftOf(format)`, arithmetic for the signed formats: the bits
\* above the shifted-out ones.
shr(c) == c.hi

\* convert_to_i16 with the U16 sample cast without the bias.
convert_to_i16_castsU16(c) ==
    LET wide ==
            CASE c.format = "S16" -> c.hi
              [] c.format = "S32" -> shr(c)
              [] c.format = "U8" -> (c.hi - 128) * 256
              [] c.format = "U16" -> c.hi
              [] c.format = "U24" -> shr(c) - 32768
              [] c.format = "U32" -> shr(c) - 32768
              [] c.format = "S24" -> shr(c)
              [] c.format = "S8" -> c.hi * 256
    IN  [wide |-> wide, sample |-> as_i16(wide)]

\* Lines 279-417, the integer arms: the value computed for the sample in the
\* wider type (wide) and the i16 pushed to the output.
convert_to_i16(c) ==
    LET wide ==
            CASE c.format = "S16" -> c.hi
              [] c.format = "S32" -> shr(c)
              [] c.format = "U8" -> (c.hi - 128) * 256
              [] c.format = "U16" -> c.hi - 32768
              [] c.format = "U24" -> shr(c) - 32768
              [] c.format = "U32" -> shr(c) - 32768
              [] c.format = "S24" -> shr(c)
              [] c.format = "S8" -> c.hi * 256
    IN  [wide |-> wide, sample |-> as_i16(wide)]

\* The sample one above c's in its format, c itself at the format's top.
NextSample(c) ==
    IF c.lo < Pow2(ShiftOf(c.format)) - 1 THEN [c EXCEPT !.lo = @ + 1]
    ELSE IF c.hi + 1 \in HiRange(c.format) THEN [c EXCEPT !.hi = @ + 1, !.lo = 0]
    ELSE c

InitConvert ==
    /\ ScanIdle
    /\ pool = NoPool
    /\ \E fmt \in IntFormats :
          \E hi \in HiRange(fmt), lo \in LoValues(fmt) :
              call = ConvertCall(fmt, hi, lo)
    /\ ret = NoCall
    /\ classifier = NoClassifier

\* The sample and the one above it are converted.
ConvertToI16 ==
    /\ call.fn = "convert_to_i16"
    /\ ret = NoCall
    /\ ret' = [fn |-> call.fn, value |-> convert_to_i16(call),
               above |-> convert_to_i16(NextSample(call))]
    /\ UNCHANGED <<scanVars, pool, call, classifier>>

\* convert_to_i16 over the samples of every integer format.
ConvertSpec == InitConvert /\ [][ConvertToI16]_vars

\* ================================================================= claims
\* The tasks whose run_scan_logic is executing.
ScansRunning == {t \in Tasks : Running(t)}

\* C1: at most one scan is active at any time: under every interleaving of
\* concurrent start_scan calls, two executions of run_scan_logic never overlap.
C1_AtMostOneScanActive == Cardinality(ScansRunning) <= 1

\* The paths task t's scan has merged an entry for, and those it has merged
\* a vector for.
MergedEntries(t) ==
    {p \in DOMAIN task[t].library : task[t].library[p].scanned_at = Now(t)}

MergedVectors(t) ==
    {p \in DOMAIN task[t].analysis_store : task[t].analysis_store[p].by = t}

\* What a re-open of the store files finds for path p.
OnDiskEntry(p, entry) ==
    /\ diskIndex.state = "ok"
    /\ p \in DOMAIN diskIndex.data
    /\ diskIndex.data[p] = entry

OnDiskVector(p, vector) ==
    /\ diskAnalysis.state = "ok"
    /\ p \in DOMAIN diskAnalysis.data
    /\ diskAnalysis.data[p] = vector

\* The files merged by task t's scan that a crash now would lose.
LostOnCrash(t) ==
    {p \in MergedEntries(t) : ~OnDiskEntry(p, task[t].library[p])}
    \cup {p \in MergedVectors(t) : ~OnDiskVector(p, task[t].analysis_store[p])}

\* No store file is truncated and no write has failed.
StoresIntact ==
    /\ diskIndex.state # "torn"
    /\ diskAnalysis.state # "torn"
    /\ ioFailures = 0

\* C2: during a scan a checkpoint is issued every 200 processed files, so at
\* any crash point at most 200 successfully merged files are missing from the
\* persisted stores, whatever the number of pre-skipped files and of errors.
C2_CrashLosesAtMost200 ==
    \A t \in Tasks :
        (Running(t) /\ StoresIntact) => Cardinality(LostOnCrash(t)) <= CheckpointEvery

\* C3: store saves are atomic with respect to crashes: after a crash at any
\* point of a scan, a re-open of index.json and of analysis.bin loads
\* successfully (the complete old content or the complete new one).
C3_CrashLeavesLoadableStores ==
    (crashes > 0 /\ ioFailures = 0 /\ \A t \in Tasks : ~task[t].writing)
        => Load(diskIndex).ok /\ Load(diskAnalysis).ok

\* Task t's scan has completed without a fatal error and no later scan was
\* started.
CompletedOk(t) ==
    /\ task[t].pc \in {"ret", "join", "done"}
    /\ task[t].scan_result = "Ok"
    /\ started = t

Candidates == Range(scan_directory)

\* C4: after a scan completes, the Index Store holds an entry for f iff f was a
\* candidate of the scan and its enrichment succeeded, and the entry's
\* modified_time is f's mtime, whatever the Index Store held before.
C4_IndexHoldsExactlyTheEnriched ==
    \A t \in Tasks :
        (CompletedOk(t) /\ StoresIntact) =>
            \A f \in Paths :
                /\ (f \in DOMAIN Load(diskIndex).store)
                       <=> (f \in Candidates /\ process_file(f) # "err")
                /\ (f \in DOMAIN Load(diskIndex).store)
                       => Load(diskIndex).store[f].modified_time = Metadata(f).mtime

\* The diff phase of task t is the step taken.
DiffStep(t) == task[t].pc = "diff" /\ task'[t].pc \in {"chunk", "ret"}

\* The claim's condition for reprocessing f, on the stores as loaded.
MustReprocess(t, f) ==
    \/ f \notin DOMAIN task[t].library
    \/ task[t].library[f].file_size # Metadata(f).size
    \/ task[t].library[f].modified_time # Metadata(f).mtime
    \/ f \notin DOMAIN task[t].analysis_store

\* C5: in the diff phase a candidate is put on the work list iff it has no
\* index entry, or its (size, mtime) differs from the entry, or it has no
\* feature vector; every other candidate is pre-counted as skipped.
C5_WorkListIffChanged ==
    [][\A t \in Tasks :
        DiffStep(t) =>
            LET listed == {task'[t].files_to_process[i].path :
                              i \in DOMAIN task'[t].files_to_process}
            IN  /\ \A f \in Candidates : f \in listed <=> MustReprocess(t, f)
                /\ listed \subseteq Candidates
                /\ progress'.files_processed = Cardinality(Candidates \ listed)]_vars

\* The work items task t has merged so far, and the last multiple of 200 of
\* their number.
MergesDone(t) == task[t].next_chunk - 1

LastCheckpoint(t) == (MergesDone(t) \div CheckpointEvery) * CheckpointEvery

\* The entry and the vector the merge writes for work item w of task t.
EntryFor(w, t) ==
    [file_size |-> w.size, modified_time |-> w.mtime, scanned_at |-> Now(t)]

\* C7: a scan interrupted after N merges leaves on disk a checkpoint holding
\* exactly the successful merges made before the last multiple of 200.
C7_CheckpointHoldsMergesBeforeLastMultiple ==
    \A t \in Tasks :
        (/\ task[t].pc \in {"chunk", "final_index"}
         /\ ~task[t].writing
         /\ crashes = 0
         /\ StoresIntact
         /\ LastCheckpoint(t) > 0) =>
            \A i \in 1..MergesDone(t) :
                LET w == task[t].files_to_process[i]
                IN  process_file(w.path) # "err" =>
                        (OnDiskEntry(w.path, EntryFor(w, t)) <=> i <= LastCheckpoint(t))

\* C9: a failure to write either store is fatal to the scan, at a periodic
\* checkpoint as at finalize: the scan logic returns an error and does not go on.
C9_WriteFailureIsFatal ==
    \A t \in Tasks : task[t].save_failed => ~Running(t)

\* A step within one run: no start_scan was accepted and the process did not
\* restart.
SameRun == started' = started /\ crashes' = crashes

\* C6: at every observation of ScanProgress, files_processed <= files_total,
\* and files_processed and errors never decrease within a run.
C6_ProgressBoundedAndMonotonic ==
    /\ [](progress.files_processed <= progress.files_total)
    /\ [][SameRun => /\ progress'.files_processed >= progress.files_processed
                     /\ progress'.errors >= progress.errors]_vars

\* A scan over more than one chunk, with a failed file, has counted every file.
C6_Witness ==
    /\ progress.is_scanning
    /\ progress.files_total > CheckpointEvery
    /\ progress.files_processed = progress.files_total
    /\ progress.errors > 0

\* The merge of a chunk by task t is the step taken.
MergeStep(t) == task[t].pc = "merge" /\ task'[t].pc \notin {"merge", "killed"}

\* Map m holds for path p what map n holds.
SameAt(m, n, p) ==
    /\ (p \in DOMAIN m) = (p \in DOMAIN n)
    /\ p \in DOMAIN m => m[p] = n[p]

\* C8: for each work-list file whose worker returns an error, the published
\* error counter increases by exactly one, neither store is changed for that
\* path, and the scan goes on.
C8_ErrorCountedStoresUntouched ==
    [][\A t \in Tasks :
        MergeStep(t) =>
            LET rs == task[t].chunk_results
                failed == {i \in DOMAIN rs : rs[i].result = "err"}
            IN  /\ progress'.errors = progress.errors + Cardinality(failed)
                /\ \A i \in failed :
                      /\ SameAt(task[t].library, task'[t].library, rs[i].path)
                      /\ SameAt(task[t].analysis_store, task'[t].analysis_store,
                                rs[i].path)
                /\ task'[t].pc \in {"chunk", "ckpt_index", "final_index"}
                /\ task'[t].next_chunk = task[t].next_chunk + Len(rs)]_vars

\* A changed file failed: its old entry and old vector are kept, the error is
\* counted, and a file after it in the chunk was merged.
C8_Witness ==
    \E t \in Tasks, p \in Varied :
        /\ task[t].pc = "final_index"
        /\ progress.errors = 1
        /\ process_file(p) = "err"
        /\ p \in DOMAIN task[t].library
        /\ task[t].library[p] = OldEntry(tree.kinds[p])
        /\ task[t].library[p].file_size # Metadata(p).size
        /\ p \in DOMAIN task[t].analysis_store
        /\ MergedEntries(t) # {}

\* C10: every accepted start_scan is eventually followed by is_scanning =
\* false, whether the scan logic finishes, returns early, fails or panics.
C10_ScanEventuallyEnds ==
    \A t \in Tasks : (task[t].pc = "spawned") ~> (~progress.is_scanning)

\* A scan that panicked has ended and the next start_scan was accepted.
C10_Witness ==
    /\ task[1].pc = "done"
    /\ task[1].scan_result = "Panic"
    /\ task[2].pc = "spawned"
    /\ progress.is_scanning

\* C11: the number of worker pipelines running at once never exceeds
\* min(4, max(1, logical_cpus - 1)), in every scan entry point.
C11_WorkersWithinCap ==
    pool.entry # "none" =>
        pool.active <= Min(4, Max(1, (IF pool.cpus = 0 THEN 2 ELSE pool.cpus) - 1))

\* C12: when a scan finishes without a fatal error, files_processed equals
\* files_total: every candidate the walker returned was counted exactly once,
\* as pre-skipped or as processed.
C12_EveryCandidateCounted ==
    \A t \in Tasks :
        CompletedOk(t) => progress.files_processed = progress.files_total

\* What a store file holds for a scan that loads it.
Loaded(file) == IF file.state = "ok" THEN file.data ELSE EmptyMap

\* Task t takes a step of its own from position pc.
StepFrom(t, pc) ==
    task[t].pc = pc /\ task'[t] # task[t] /\ crashes' = crashes

\* C13: a store that fails to load at scan start starts empty, the other
\* keeps its loaded content and the scan proceeds; a missing file loads as
\* an empty store without error, an unparsable one makes load return an error.
C13_LoadFailureDegradesToEmpty ==
    [][\A t \in Tasks :
        /\ StepFrom(t, "load_index") =>
              /\ task'[t].pc = "load_analysis"
              /\ task'[t].library = Loaded(diskIndex)
              /\ Load(diskIndex).ok = (diskIndex.state # "torn")
        /\ StepFrom(t, "load_analysis") =>
              /\ task'[t].pc = "walk"
              /\ task'[t].analysis_store = Loaded(diskAnalysis)
              /\ task'[t].library = task[t].library
              /\ Load(diskAnalysis).ok = (diskAnalysis.state # "torn")]_vars

\* A scan went past the loads with an unparsable analysis.bin and a parsed,
\* non-empty index.json.
C13_Witness ==
    \E t \in Tasks :
        /\ task[t].pc = "walk"
        /\ diskAnalysis.state = "torn"
        /\ task[t].analysis_store = EmptyMap
        /\ diskIndex.state = "ok"
        /\ DOMAIN task[t].library # {}
        /\ task[t].library = diskIndex.data

\* find_duplicates has returned.
Returned(fn) == call.fn = fn /\ ret # NoCall

\* The positions (group, index) at which the returned groups hold path p.
PlacesOf(groups, p) ==
    {<<g, i>> \in (DOMAIN groups) \X TrackPaths :
        i \in DOMAIN groups[g] /\ groups[g][i].path = p}

\* C14: find_duplicates puts two tracks that have a fingerprint in the same
\* group iff their fingerprints are equal; every group has at least 2 tracks,
\* a track is in at most one group, and a track with no fingerprint or with
\* one no other track shares is in no group.
C14_DuplicatesGroupedByFingerprint ==
    Returned("find_duplicates") =>
        LET files == call.files
            groups == ret.value
            fp(p) == files[p].metadata.fingerprint
            together(p, q) ==
                \E a \in PlacesOf(groups, p), b \in PlacesOf(groups, q) : a[1] = b[1]
        IN  /\ \A p, q \in DOMAIN files :
                  (p # q /\ fp(p) # None /\ fp(q) # None) =>
                      (together(p, q) <=> fp(p) = fp(q))
            /\ \A g \in DOMAIN groups : Len(groups[g]) >= 2
            /\ \A p \in TrackPaths : Cardinality(PlacesOf(groups, p)) <= 1
            /\ \A p \in DOMAIN files :
                  (fp(p) = None \/ \A q \in DOMAIN files \ {p} : fp(q) # fp(p))
                      => PlacesOf(groups, p) = {}
            /\ \A p \in TrackPaths \ DOMAIN files : PlacesOf(groups, p) = {}

\* Two tracks share a fingerprint, a third has another, and one group of
\* two came back.
C14_Witness ==
    /\ Returned("find_duplicates")
    /\ Cardinality(DOMAIN call.files) = 3
    /\ Cardinality(GroupKeys(call.files)) = 2
    /\ Len(ret.value) = 1
    /\ Len(ret.value[1]) = 2

\* The paths of the tracks a find_similar call returned, in order.
ReturnedPaths == [i \in DOMAIN ret.value |-> ret.value[i].track.path]

\* The tracks of the call's library other than the query that pass the
\* filters and have a feature vector.
Eligible ==
    {p \in DOMAIN call.files :
        /\ call.files[p].path # call.query_path
        /\ PassesFilters(call.files[p], call.filters)
        /\ call.files[p].path \in DOMAIN call.store}

MeetsFilters(m, f, eq(_, _)) ==
    /\ f.same_artist # None => eq_ignore_ascii_case(m.artist, f.same_artist[1])
    /\ f.same_album # None => (m.album # None /\ eq(m.album[1], f.same_album[1]))
    /\ f.exclude_album # None => (m.album = None \/ m.album[1] # f.exclude_album[1])
    /\ f.exclude_fingerprint # None =>
          (m.fingerprint = None \/ m.fingerprint[1] # f.exclude_fingerprint[1])
    /\ f.genre # None =>
          \E i \in DOMAIN m.genres : eq_ignore_ascii_case(m.genres[i][1], f.genre[1])

\* C16 as stated: a track is returned only if it meets every set filter, its
\* album being equal to same_album.
C16_FiltersByConjunctionAlbumEqual ==
    Returned("find_similar") =>
        \A i \in DOMAIN ret.value :
            MeetsFilters(ret.value[i].track.metadata, call.filters, LAMBDA a, b : a = b)

\* C16 as amended: a track is returned only if it meets every set filter, its
\* album being equal to same_album up to ASCII case; with no filter set every
\* other track with a vector is returned, top_k permitting.
C16_FiltersByConjunction ==
    Returned("find_similar") =>
        /\ \A i \in DOMAIN ret.value :
              MeetsFilters(ret.value[i].track.metadata, call.filters,
                           eq_ignore_ascii_case)
        /\ (call.filters = NoFilters /\ call.query_path \in DOMAIN call.store) =>
              Len(ret.value) =
                  Min(call.top_k,
                      Cardinality({p \in DOMAIN call.files \ {call.query_path} :
                                      p \in DOMAIN call.store}))

\* Four filters are set and the candidate, which differs from each filter
\* value in case only, is returned.
C16_Witness ==
    /\ Returned("find_similar")
    /\ call.filters.same_artist = Some("abba")
    /\ call.filters.same_album = Some("arrival")
    /\ call.filters.exclude_fingerprint = Some("AQAA")
    /\ call.filters.genre = Some("rock")
    /\ Len(ret.value) = 1
    /\ ret.value[1].track.metadata.artist = "ABBA"
    /\ ret.value[1].track.metadata.album = Some("Arrival")

\* C17: a worker attempts the online lookup iff a client-id is present and
\* the scan is not offline (the file having been decoded and fingerprinted),
\* so an offline scan sends no request; a failed lookup falls back to the tag
\* metadata with the local duration and fingerprint, and the file is not an
\* error because of it.
C17_LookupOnlyOnlineWithFallback ==
    Returned("process_file") =>
        LET r == ret.value
            local_ok == call.decode_ok /\ call.fingerprint_ok
            online == call.client_id # None /\ ~call.offline
        IN  /\ (r.requests # <<>>) = (online /\ local_ok)
            /\ call.offline => r.requests = <<>>
            /\ (r.result = "Err") = ~local_ok
            /\ (online /\ local_ok /\ call.lookup \notin {"match", "match_mb_down"}) =>
                  /\ r.result = "Ok"
                  /\ r.meta.source = "tags"
                  /\ r.meta.duration = LocalDuration
                  /\ r.meta.fingerprint = Some(LocalFingerprint)

\* An online worker whose AcoustID request could not be sent returned the tag
\* metadata.
C17_Witness ==
    /\ Returned("process_file")
    /\ call.client_id # None
    /\ ~call.offline
    /\ call.lookup = "send_error"
    /\ ret.value.requests = <<"acoustid">>
    /\ ret.value.result = "Ok"
    /\ ret.value.meta = TagMetadata

\* C18: the file stem is split by " - "; two parts are title and artist; in
\* every other case the stem is split by '-' and, with at least 2 parts, the
\* last is the artist and the parts before it, rejoined with '-', the title;
\* with no dash the whole stem is the title and there is no artist.  (Title
\* and artist are taken without the spaces around them.)
C18_FilenameFallback ==
    Returned("parse_metadata_from_filename") =>
        LET stem == SubSeq(call.filename, 1, Len(call.filename) - Len(Extension))
            spaced == split(stem, <<" ", "-", " ">>)
            dashed == split(stem, <<"-">>)
            n == Len(dashed)
        IN  IF Len(spaced) = 2
            THEN ret.value = <<Some(trim(spaced[1])), Some(trim(spaced[2]))>>
            ELSE IF n >= 2
            THEN ret.value = <<Some(trim(join(SubSeq(dashed, 1, n - 1), <<"-">>))),
                               Some(trim(dashed[n]))>>
            ELSE ret.value = <<Some(stem), None>>

\* One of the two model files is not in the model directory.
ModelFileMissing ==
    ~classifier.model_dir.embedding \/ ~classifier.model_dir.classifier

\* C19: when either model file is missing, init_models succeeds and leaves
\* the classifier uninitialised, and every later classify call on any thread
\* returns an empty genre list without error and without running inference.
C19_MissingModelsGiveNoGenres ==
    (ModelFileMissing /\ classifier.init_called) =>
        /\ classifier.MODEL_DIR = None
        /\ \A th \in Threads : ~classifier.MODELS[th]
        /\ ret.value.result = "Ok"
        /\ ret.fn = "classify" => (ret.value.genres = <<>> /\ ~ret.value.inference)

\* One file is missing, init_models has run, and the second thread was then
\* asked for the top 3 of a full activation vector.
C19_Witness ==
    /\ classifier.model_dir.embedding
    /\ ~classifier.model_dir.classifier
    /\ classifier.init_called
    /\ ret.fn = "classify"
    /\ ret.thread = 2
    /\ call.top_k = 3
    /\ Len(call.activations) = NumLabels
    /\ ret.value.genres = <<>>

\* C20: classify returns min(k, L) results sorted by confidence descending,
\* each pairing the activation at position i with the label at position i of
\* the 87-entry table, for every activation vector the classifier returns.
C20_TopKSortedWithTableLabels ==
    (ret.fn = "classify" /\ call.pipeline = "activations"
        /\ classifier.MODELS[ret.thread]) =>
        LET a == call.activations
            g == ret.value.genres
        IN  /\ ret.value.result = "Ok"
            /\ Len(g) = Min(call.top_k, Len(a))
            /\ \A i, j \in DOMAIN g : i < j => g[i].confidence.v >= g[j].confidence.v
            /\ \A i, j \in DOMAIN g : i # j => g[i].label # g[j].label
            /\ \A i \in DOMAIN g :
                  /\ g[i].label.known
                  /\ g[i].label.index \in DOMAIN a
                  /\ g[i].confidence = a[g[i].label.index]

\* The in-memory stores of task t differ after the step while run_scan_logic
\* is between its loads and its return.
StoresMutated(t) ==
    /\ task[t].pc \notin {"none", "spawned", "load_index", "load_analysis"}
    /\ task'[t].pc \notin {"ret", "killed"}
    /\ \/ task'[t].library # task[t].library
       \/ task'[t].analysis_store # task[t].analysis_store

\* A worker starts on an item of task t's chunk.
WorkerStarts(t) ==
    task[t].pc = "workers" /\ pool'.running \ pool.running # {}

\* Everything merged so far by task t is published in ScanProgress.
Published(t) ==
    /\ progress.files_processed = task[t].processed_c
    /\ progress.errors = task[t].error_c

\* The paths of a sequence of work items or results, in order.
PathsOf(items) == [i \in 1..Len(items) |-> items[i].path]

\* Store mutation only in the merge with no worker running, workers started
\* only once the chunk before is merged and published, and each merge is of
\* the chunk submitted last, the chunks taken front to back.
MergeBehindBarrier ==
    \A t \in Tasks :
        /\ StoresMutated(t) =>
               /\ task[t].pc = "merge"
               /\ pool.running = {}
               /\ pool.taken = Len(task[t].chunk_results)
        /\ WorkerStarts(t) =>
               /\ task[t].chunk_results = <<>>
               /\ Published(t)
               /\ \A i \in 1..(task[t].next_chunk - 1) :
                      LET path == task[t].files_to_process[i].path
                      IN  process_file(path) # "err" => path \in MergedEntries(t)
        /\ MergeStep(t) =>
               /\ PathsOf(task[t].chunk_results) = PathsOf(CurrentChunk(t))
               /\ task'[t].next_chunk = task[t].next_chunk + Len(CurrentChunk(t))
               /\ Published(t)'

\* The last file of the chunk task t is merging.
LastOfChunk(t) == CurrentChunk(t)[Len(CurrentChunk(t))].path

C22_ProgressFrozenAfterScanEnd ==
    [][(~progress.is_scanning /\ progress' # progress) =>
           /\ progress' = ResetProgress
           /\ started' = started + 1]_vars

\* The monitor thread of task t writes its sample into ScanProgress.
MonitorWrites(t) ==
    monPc[t] = "sample" /\ monPc'[t] = "sleep" /\ progress' # progress

\* The scan of task t is over: its cleanup has cleared is_scanning.
ScanOver(t) == task[t].pc \in {"join", "done"}

\* C23: the monitor thread of a scan runs only while that scan is active,
\* also when a new scan is started right after it: only the monitor of the
\* scan accepted last writes ScanProgress, so elapsed_secs never comes from
\* the start time of a previous scan, and a monitor whose scan is over exits
\* at its next check (the next check that finds the lock free).
C23_MonitorOnlyDuringOwnScan ==
    [][\A t \in Tasks :
          /\ MonitorWrites(t) => progress'.elapsed_secs = started
          /\ (monPc[t] = "sleep" /\ monPc'[t] # "sleep" /\ ScanOver(t)) =>
                 monPc'[t] = "exited" \/ LockContended(t)]_vars

\* C24: every IndexedTrack written by a scan has scanned_at >= modified_time,
\* also for a file modified between the scan taking its time and reading the
\* file's metadata in the diff phase.
C24_ScannedAtNotBeforeModified ==
    \A t \in Tasks : \A p \in MergedEntries(t) :
        task[t].library[p].scanned_at >= task[t].library[p].modified_time

\* C25: the per-file worker decodes each file exactly once: a single decode
\* feeds fingerprinting and feature extraction, and no second read-and-decode
\* of the file happens within one worker invocation.
C25_SingleDecodePerFile ==
    Returned("process_file") => Len(ret.value.decodes) = 1

\* C26: external lookup calls are rate-limited to one request per second per
\* target host across the whole scan: no two requests to the same host
\* (AcoustID or MusicBrainz) are sent less than one second apart, whichever
\* workers send them.
C26_OneRequestPerSecondPerHost ==
    pool.entry = "lookup" =>
        \A i \in DOMAIN pool.sent : \A j \in DOMAIN pool.sent :
            (i < j /\ pool.sent[i].host = pool.sent[j].host) =>
                pool.sent[j].at - pool.sent[i].at >= RateLimitPause

\* The frames of audio of `len` samples: one per hop once a whole window fits.
FramesOf(len) == IF len < N_FFT THEN 0 ELSE ((len - N_FFT) \div HOP_LENGTH) + 1

\* C27: for every input length, audio shorter than one window and empty
\* audio included, the frame count is computed without underflow; with fewer
\* than 128 frames no patch is produced and classification returns an empty
\* result without inference and without error; with F >= 128 frames exactly
\* floor((F - 128) / 64) + 1 patches of 128 frames at stride 64 are produced.
C27_FramesWithoutUnderflow ==
    Returned("classify_framing") =>
        LET frames == FramesOf(call.samples)
            r == ret.value
        IN  /\ r.result = "Ok"
            /\ r.rows = frames
            /\ frames < PATCH_FRAMES => r.patches = <<>> /\ ~r.inference
            /\ frames >= PATCH_FRAMES =>
                   /\ Len(r.patches) = ((frames - PATCH_FRAMES) \div 64) + 1
                   /\ \A i \in DOMAIN r.patches :
                          /\ r.patches[i] = 64 * (i - 1)
                          /\ r.patches[i] + PATCH_FRAMES <= frames

\* The 16-bit value the fixed rule gives a sample: S16 copied, S32 >> 16,
\* S24 >> 8, S8 << 8, the unsigned formats reduced to 16 bits and then biased
\* by the midpoint.
FixedRule(c) ==
    CASE c.format \in {"S16", "S24", "S32"} -> c.hi
      [] c.format = "S8" -> c.hi * 256
      [] c.format = "U8" -> c.hi * 256 - 32768
      [] c.format \in {"U16", "U24", "U32"} -> c.hi - 32768

\* C28: for every integer sample format the conversion to signed 16 bit
\* follows the fixed rule, the result lies in [-32768, 32767] before the
\* final cast, so that no value wraps around, and the conversion is monotonic
\* non-decreasing in the input sample value.
C28_IntegerSamplesToI16 ==
    Returned("convert_to_i16") =>
        /\ ret.value.sample = FixedRule(call)
        /\ ret.value.wide \in I16_MIN..I16_MAX
        /\ ret.value.sample = ret.value.wide
        /\ ret.value.sample <= ret.above.sample

\* The largest U24 sample has been converted, to the largest i16.
C28_Witness ==
    /\ Returned("convert_to_i16")
    /\ call.format = "U24"
    /\ call.hi = 65535
    /\ call.lo = 255
    /\ ret.value.sample = I16_MAX

\* ------------------------------------------------- C29: at-least-once update
\* A scan that follows a crash has returned Ok: the process died during an
\* earlier scan (anywhere, between the index write and the feature-store write
\* of a checkpoint and between the truncation and the write of either file
\* included) and the scan started after the restart ran to its end.
CompletedAfterCrash(t) == CompletedOk(t) /\ crashes > 0

\* Enrichment of f succeeds: the diff phase reads f's metadata and process_file
\* returns Ok for it, with a vector or without.
EnrichmentSucceeds(f) == MetadataOk(f) /\ process_file(f) # "err"

\* index.json, as the next load reads it, holds f with the file's current
\* (size, mtime).
UpToDateEntry(f) ==
    /\ f \in DOMAIN Load(diskIndex).store
    /\ Load(diskIndex).store[f].file_size = Metadata(f).size
    /\ Load(diskIndex).store[f].modified_time = Metadata(f).mtime

\* analysis.bin, as the next load reads it, holds a vector for f.
PersistedVector(f) == f \in DOMAIN Load(diskAnalysis).store

\* C29 as stated: after a crash at any point of a scan and a later scan over the
\* unchanged tree that runs to completion, every candidate whose enrichment
\* succeeds has an up-to-date index entry and a feature vector in the
\* persisted stores.
C29_AtLeastOnceWithVector ==
    \A t \in Tasks :
        CompletedAfterCrash(t) =>
            \A f \in Candidates :
                EnrichmentSucceeds(f) => UpToDateEntry(f) /\ PersistedVector(f)

\* C29, amended: after a crash at any point of a scan and a later scan over the
\* unchanged tree that runs to completion, every candidate whose enrichment
\* succeeds has an up-to-date index entry in the persisted index, and a
\* feature vector in the persisted feature store if its feature extraction
\* succeeds; no such candidate is skipped because of the crash.
C29_AtLeastOnce ==
    \A t \in Tasks :
        CompletedAfterCrash(t) =>
            \A f \in Candidates :
                EnrichmentSucceeds(f) =>
                    /\ UpToDateEntry(f)
                    /\ process_file(f) = "vec" => PersistedVector(f)

\* A scan after a crash has completed over a tree large enough for a
\* checkpoint, with a file that had no entry before the first scan and now has
\* its entry and its vector on disk.
C29_Witness ==
    \E t \in Tasks :
        /\ CompletedAfterCrash(t)
        /\ tree.n >= CheckpointEvery
        /\ \E f \in Candidates :
              /\ EnrichmentSucceeds(f)
              /\ process_file(f) = "vec"
              /\ f > MaxVaried
              /\ UpToDateEntry(f)
              /\ PersistedVector(f)

\* ------------------------------------- C30: the vector that goes with an entry
\* No scan is under way and none has crashed, failed a write or panicked: the
\* store files are as the completed scans left them.
AfterScans ==
    /\ ScansRunning = {}
    /\ \E t \in Tasks : CompletedOk(t)
    /\ crashes = 0 /\ ioFailures = 0 /\ panics = 0

\* The path's entry and its vector come from one worker invocation: the scan
\* that stamped the entry's scanned_at is the one whose worker made the vector.
SameInvocation(entry, vector) == entry.scanned_at = Now(vector.by)

\* C30: after any sequence of scans, for every path that has both an index
\* entry and a feature vector, the vector was produced by the worker invocation
\* that produced the entry: the feature store does not keep the vector of a
\* file's previous content next to the new (size, mtime) record when the
\* changed file is reprocessed and its feature extraction fails.
C30_VectorFromSameInvocation ==
    AfterScans =>
        \A p \in DOMAIN Load(diskIndex).store \cap DOMAIN Load(diskAnalysis).store :
            SameInvocation(Load(diskIndex).store[p], Load(diskAnalysis).store[p])

====
